---- MODULE Spec2Model ----
(***************************************************************************)
(* Model of the streaming chat-completion pipeline of clawdbot:            *)
(*   - OpenAIProvider.stream   (clawdbot/agents/providers/openai_provider) *)
(*     the upstream stream normalizer, with its tool-call reassembly;      *)
(*   - chat_completions.stream_response   (clawdbot/api/openai_compat)     *)
(*     the wire encoder of a streaming request.                            *)
(* Strings are sequences of one-character strings.  The character "'"      *)
(* stands for the JSON double quote (U+0022).                              *)
(***************************************************************************)
EXTENDS Integers, Sequences, FiniteSets, TLC

None == "None"

(***************************************************************************)
(* json.loads / json.dumps, restricted to the characters                   *)
(*   {  }  [  ]  '  :  1  and the space.                                   *)
(* A Python value is a record [type, repr]: repr is the compact JSON text  *)
(* of a dict, list or int, and the content of a str.                       *)
(***************************************************************************)
Q == "'"

RECURSIVE SkipWs(_, _)
SkipWs(s, i) ==
    IF i <= Len(s) /\ s[i] = " " THEN SkipWs(s, i + 1) ELSE i

RECURSIVE ScanString(_, _)
\* position of the closing quote of a string whose content starts at i, 0 if none
ScanString(s, i) ==
    IF i > Len(s) THEN 0
    ELSE IF s[i] = Q THEN i
    ELSE ScanString(s, i + 1)

RECURSIVE ScanNumber(_, _)
\* first position after the run of digits starting at i
ScanNumber(s, i) ==
    IF i <= Len(s) /\ s[i] = "1" THEN ScanNumber(s, i + 1) ELSE i

JsonFail == [ok |-> FALSE, end |-> 0, type |-> "error", text |-> <<>>]

JsonOk(e, t, x) == [ok |-> TRUE, end |-> e, type |-> t, text |-> x]

RECURSIVE ScanValue(_, _)
\* the JSON value that starts at position i of s: its type, its compact text
\* and the position after it
ScanValue(s, i) ==
    IF i > Len(s) THEN JsonFail
    ELSE IF s[i] = Q THEN
        LET c == ScanString(s, i + 1) IN
        IF c = 0 THEN JsonFail ELSE JsonOk(c + 1, "str", SubSeq(s, i, c))
    ELSE IF s[i] = "1" THEN
        LET e == ScanNumber(s, i) IN JsonOk(e, "int", SubSeq(s, i, e - 1))
    ELSE IF s[i] = "[" THEN
        LET j == SkipWs(s, i + 1) IN
        IF j <= Len(s) /\ s[j] = "]" THEN JsonOk(j + 1, "list", <<"[", "]">>)
        ELSE
            LET v == ScanValue(s, j) IN
            IF ~v.ok THEN JsonFail
            ELSE
                LET k == SkipWs(s, v.end) IN
                IF k <= Len(s) /\ s[k] = "]"
                THEN JsonOk(k + 1, "list", <<"[">> \o v.text \o <<"]">>)
                ELSE JsonFail
    ELSE IF s[i] = "{" THEN
        LET j == SkipWs(s, i + 1) IN
        IF j <= Len(s) /\ s[j] = "}" THEN JsonOk(j + 1, "dict", <<"{", "}">>)
        ELSE IF j > Len(s) \/ s[j] # Q THEN JsonFail
        ELSE
            LET c == ScanString(s, j + 1) IN
            IF c = 0 THEN JsonFail
            ELSE
                LET k == SkipWs(s, c + 1) IN
                IF k > Len(s) \/ s[k] # ":" THEN JsonFail
                ELSE
                    LET v == ScanValue(s, SkipWs(s, k + 1)) IN
                    IF ~v.ok THEN JsonFail
                    ELSE
                        LET m == SkipWs(s, v.end) IN
                        IF m <= Len(s) /\ s[m] = "}"
                        THEN JsonOk(m + 1, "dict",
                                    <<"{">> \o SubSeq(s, j, c) \o <<":">>
                                        \o v.text \o <<"}">>)
                        ELSE JsonFail
    ELSE JsonFail

\* json.loads(s): [ok |-> FALSE] stands for json.JSONDecodeError
json_loads(s) ==
    LET v == ScanValue(s, SkipWs(s, 1)) IN
    IF v.ok /\ SkipWs(s, v.end) = Len(s) + 1
    THEN [ok |-> TRUE, type |-> v.type,
          repr |-> IF v.type = "str" THEN SubSeq(v.text, 2, Len(v.text) - 1)
                   ELSE v.text]
    ELSE [ok |-> FALSE, type |-> "error", repr |-> <<>>]

RECURSIVE Spaced(_, _, _)
\* the compact text t from position i on, with the item separators of
\* json.dumps: a space after every ":" that is outside a string
Spaced(t, i, instr) ==
    IF i > Len(t) THEN <<>>
    ELSE IF t[i] = Q THEN <<t[i]>> \o Spaced(t, i + 1, ~instr)
    ELSE IF t[i] = ":" /\ ~instr THEN <<":", " ">> \o Spaced(t, i + 1, instr)
    ELSE <<t[i]>> \o Spaced(t, i + 1, instr)

\* json.dumps(v) of a dict v
json_dumps(v) == Spaced(v.repr, 1, FALSE)


(***************************************************************************)
(* Upstream frames (ChatCompletionChunk) and canonical events (LLMResponse)*)
(*                                                                         *)
(* chunk: [has_choice, content, tool_calls, finish_reason, usage,          *)
(*         system_fingerprint].  has_choice = FALSE is an empty            *)
(* chunk.choices.  content, finish_reason, system_fingerprint, and the id  *)
(* and name of a tool-call delta are atoms, None when absent and "" when   *)
(* empty.  The arguments of a delta are a character sequence, NoArgs when  *)
(* absent.  A usage is <<prompt, completion, total>>, <<>> when absent.    *)
(* A delta without a function object is one whose name and arguments are   *)
(* both absent.                                                            *)
(***************************************************************************)
NoArgs == <<None>>

NoUsage == <<>>

Truthy(x) == x # None /\ x # ""

TruthyArgs(a) == a # NoArgs /\ a # <<>>

\* f"call_{idx}"
call_(idx) == "call_" \o ToString(idx)

LLMResponse(t, c, tcs, fr, u) ==
    [type |-> t, content |-> c, tool_calls |-> tcs, finish_reason |-> fr,
     usage |-> u]

\* tool_calls_buffer is a dict in insertion order: a sequence of entries
\* keyed by index
HasKey(buf, idx) == \E k \in 1..Len(buf) : buf[k].index = idx

\* KeyPos that takes the entry created last, whatever its key
KeyPos_Last(buf, idx) == Len(buf)

KeyPos(buf, idx) == CHOOSE k \in 1..Len(buf) : buf[k].index = idx

\* Accumulate with the fragment assigned instead of appended
Accumulate_Overwrite(buf, tool_call) ==
    LET idx == tool_call.index
        b1 == IF HasKey(buf, idx) THEN buf
              ELSE Append(buf,
                          [index |-> idx,
                           id |-> IF Truthy(tool_call.id) THEN tool_call.id
                                  ELSE call_(idx),
                           name |-> "",
                           arguments |-> <<>>])
        k == KeyPos(b1, idx)
        b2 == IF Truthy(tool_call.name)
              THEN [b1 EXCEPT ![k].name = tool_call.name]
              ELSE b1
    IN  IF TruthyArgs(tool_call.arguments)
        THEN [b2 EXCEPT ![k].arguments = tool_call.arguments]
        ELSE b2

\* Accumulate that takes the id of every fragment that bears one
Accumulate_LateId(buf, tool_call) ==
    LET idx == tool_call.index
        b1 == IF HasKey(buf, idx) THEN buf
              ELSE Append(buf,
                          [index |-> idx, id |-> call_(idx), name |-> "",
                           arguments |-> <<>>])
        k == KeyPos(b1, idx)
        b2 == IF Truthy(tool_call.id)
              THEN [b1 EXCEPT ![k].id = tool_call.id]
              ELSE b1
        b3 == IF Truthy(tool_call.name)
              THEN [b2 EXCEPT ![k].name = tool_call.name]
              ELSE b2
    IN  IF TruthyArgs(tool_call.arguments)
        THEN [b3 EXCEPT ![k].arguments = @ \o tool_call.arguments]
        ELSE b3

\* Accumulate that appends the name of a fragment as it does the arguments
Accumulate_AppendName(buf, tool_call) ==
    LET idx == tool_call.index
        b1 == IF HasKey(buf, idx) THEN buf
              ELSE Append(buf,
                          [index |-> idx,
                           id |-> IF Truthy(tool_call.id) THEN tool_call.id
                                  ELSE call_(idx),
                           name |-> "",
                           arguments |-> <<>>])
        k == KeyPos(b1, idx)
        b2 == IF Truthy(tool_call.name)
              THEN [b1 EXCEPT ![k].name = @ \o tool_call.name]
              ELSE b1
    IN  IF TruthyArgs(tool_call.arguments)
        THEN [b2 EXCEPT ![k].arguments = @ \o tool_call.arguments]
        ELSE b2

\* the body of "for tool_call in delta.tool_calls" for one delta
Accumulate(buf, tool_call) ==
    LET idx == tool_call.index
        b1 == IF HasKey(buf, idx) THEN buf
              ELSE Append(buf,
                          [index |-> idx,
                           id |-> IF Truthy(tool_call.id) THEN tool_call.id
                                  ELSE call_(idx),
                           name |-> "",
                           arguments |-> <<>>])
        k == KeyPos(b1, idx)
        b2 == IF Truthy(tool_call.name)
              THEN [b1 EXCEPT ![k].name = tool_call.name]
              ELSE b1
    IN  IF TruthyArgs(tool_call.arguments)
        THEN [b2 EXCEPT ![k].arguments = @ \o tool_call.arguments]
        ELSE b2

RECURSIVE AccumulateAll(_, _)
\* "for tool_call in delta.tool_calls", in the order of the frame
AccumulateAll(buf, deltas) ==
    IF deltas = <<>> THEN buf
    ELSE AccumulateAll(Accumulate(buf, Head(deltas)), Tail(deltas))

EmptyDict == [type |-> "dict", repr |-> <<"{", "}">>]

\* ParsedArgs without the except branch: the failure is what comes out
ParsedArgs_NoCatch(arguments) ==
    IF arguments # <<>>
    THEN LET r == json_loads(arguments) IN [type |-> r.type, repr |-> r.repr]
    ELSE EmptyDict

\* args = json.loads(tc["arguments"]) if tc["arguments"] else {}, with the
\* except json.JSONDecodeError branch
ParsedArgs(arguments) ==
    IF arguments # <<>>
    THEN LET r == json_loads(arguments) IN
         IF r.ok THEN [type |-> r.type, repr |-> r.repr] ELSE EmptyDict
    ELSE EmptyDict

\* the entry appended to tool_calls for one buffer entry
ToolCallOf(tc) ==
    LET args == ParsedArgs(tc.arguments) IN
    [id |-> tc.id,
     type |-> "function",
     name |-> tc.name,
     arguments |-> IF args.type = "dict"
                   THEN [type |-> "str", repr |-> json_dumps(args)]
                   ELSE args]

RECURSIVE ByIndex(_)
\* the entries of buf sorted by index
ByIndex(buf) ==
    IF buf = <<>> THEN <<>>
    ELSE LET k == CHOOSE m \in 1..Len(buf) :
                      \A n \in 1..Len(buf) : buf[m].index <= buf[n].index
         IN  <<buf[k]>> \o ByIndex(SubSeq(buf, 1, k - 1) \o SubSeq(buf, k + 1, Len(buf)))

\* Flush over the entries sorted by index
Flush_Ascending(buf) == [k \in 1..Len(buf) |-> ToolCallOf(ByIndex(buf)[k])]

\* the list built by "for tc in tool_calls_buffer.values()"
Flush(buf) == [k \in 1..Len(buf) |-> ToolCallOf(buf[k])]

TextEvents(chunk) ==
    IF chunk.content # None
    THEN <<LLMResponse("text_delta", chunk.content, <<>>, None, NoUsage)>>
    ELSE <<>>

\* FinishEvents that flushes on every frame
FinishEvents_Eager(buf, chunk) ==
    (IF buf # <<>>
     THEN <<LLMResponse("tool_call", None, Flush(buf), None, NoUsage)>>
     ELSE <<>>)
    \o (IF Truthy(chunk.finish_reason)
        THEN <<LLMResponse("done", None, <<>>, chunk.finish_reason, chunk.usage)>>
        ELSE <<>>)

FinishEvents(buf, chunk) ==
    IF Truthy(chunk.finish_reason)
    THEN (IF buf # <<>>
          THEN <<LLMResponse("tool_call", None, Flush(buf), None, NoUsage)>>
          ELSE <<>>)
         \o <<LLMResponse("done", None, <<>>, chunk.finish_reason, chunk.usage)>>
    ELSE <<>>

MetadataEvents(chunk) ==
    IF Truthy(chunk.system_fingerprint)
    THEN <<LLMResponse("metadata", chunk.system_fingerprint, <<>>, None, NoUsage)>>
    ELSE <<>>

UsageEvents(chunk) ==
    IF chunk.usage # NoUsage
    THEN <<LLMResponse("usage", None, <<>>, None, chunk.usage)>>
    ELSE <<>>

\* the events one pass of the loop body yields, buf being the buffer after
\* the frame's deltas were accumulated
ChunkEvents(buf, chunk) ==
    IF ~chunk.has_choice THEN <<>>
    ELSE TextEvents(chunk) \o FinishEvents(buf, chunk)
             \o MetadataEvents(chunk) \o UsageEvents(chunk)

\* the buffer after one pass of the loop body
ChunkBuffer(buf, chunk) ==
    IF ~chunk.has_choice THEN buf ELSE AccumulateAll(buf, chunk.tool_calls)


(***************************************************************************)
(* One call of OpenAIProvider.stream.                                      *)
(*   pc                 "connect": before client.chat.completions.create;  *)
(*                      "stream": in the "async for chunk in stream" loop; *)
(*                      "closed": the generator has returned               *)
(*   tool_calls_buffer  the local of that name                             *)
(*   events             the LLMResponses yielded so far                    *)
(* The upstream, and what it has delivered:                                *)
(*   whole[i]           the arguments string the upstream means to send    *)
(*                      for tool-call index i                              *)
(*   pending[i]         the part of whole[i] it has not sent yet           *)
(*   last               the frame pulled by the latest Pull, its deltas    *)
(*                      reduced to their indices                           *)
(*   arrival            the indices in the order their first delta came    *)
(*   nframes            the number of frames pulled                        *)
(*   contents           the content of the frames pulled that had one      *)
(*   failed             the upstream has raised                            *)
(*   due_usage          the usage of the latest frame with a finish        *)
(*                      reason, <<>> once a later frame carried its own    *)
(*   due_fingerprint    the same for the system fingerprint                *)
(*   supplied[i]        the first non-empty id a delta of index i bore,    *)
(*                      None while none did                                *)
(*   named[i]           the last non-empty name a delta of index i bore,   *)
(*                      None while none did                                *)
(* One call of stream_response:                                            *)
(*   enc_pc             "start": nothing sent; "loop": in the              *)
(*                      "async for event in runtime.run_turn" loop;        *)
(*                      "done": the generator has returned                 *)
(*   wire               the frames yielded so far                          *)
(*   total_usage, system_fingerprint   the locals of those names           *)
(*   cursor             the number of events of the turn the loop has      *)
(*                      passed on                                          *)
(* The request, and the rest of chat_completions:                          *)
(*   completion_id      the uuid drawn for f"chatcmpl-{...}"               *)
(*   turn_input         ghost: the messages run_turn found in the session  *)
(*                      when it began                                      *)
(*   messages           request.messages: the role and the content of each *)
(*                      message, <<None>> for an absent content            *)
(*   doc                the non-streaming branch run on the same events:   *)
(*                      its locals total_usage, system_fingerprint and     *)
(*                      response_text, the number of events its loop has   *)
(*                      passed on (cursor), and the response it gave       *)
(*                      (document), NoDocument while it runs               *)
(*   parked             the variables of a second request that runs in the *)
(*                      same process and is suspended at an await or a     *)
(*                      yield, <<>> when there is no second request        *)
(*   authorization      the key the request presents, <<>> when it         *)
(*                      presents none                                      *)
(* and the state of the process, shared by all requests,                   *)
(*   manager            the APIKeyManager: _keys and _hash_to_key          *)
(*   now                the clock, in days                                 *)
(*   nkeys              how many keys create_key has issued                *)
(*   dead               ghost: the ids of the keys that were revoked or    *)
(*                      deleted                                            *)
(*   answer             what verify_api_key answered last, and to which    *)
(*                      key                                                *)
(*   storage            the file at storage_path: the key dumps that       *)
(*                      save_keys wrote last, each under its key_id        *)
(*   called             ghost: the last call that a caller of the manager  *)
(*                      made, the key it named and what it returned        *)
(*   session            the messages of the session of the user that the   *)
(*                      requests with a user name share                    *)
(*   skills             the catalog of the SkillProvider, in insertion     *)
(*                      order                                              *)
(*   query, matched     the last query of find_skills and what it returned *)
(***************************************************************************)
VARIABLES pc, tool_calls_buffer, events, whole, pending, last, arrival, nframes,
          contents, failed, due_usage, due_fingerprint, supplied, named,
          enc_pc, wire, total_usage, system_fingerprint, cursor,
          completion_id, messages, doc, parked, authorization, turn_input,
          session,
          manager, now, nkeys, dead, answer, storage, called,
          skills, query, matched

nvars == <<pc, tool_calls_buffer, events, whole, pending, last, arrival, nframes,
           contents, failed, due_usage, due_fingerprint, supplied, named>>

evars == <<enc_pc, wire, total_usage, system_fingerprint, cursor>>

kvars == <<manager, now, nkeys, dead, answer, storage, called>>

svars == <<skills, query, matched>>

gvars == <<kvars, svars, session>>

xvars == <<completion_id, messages, doc, parked, authorization, turn_input, gvars>>

vars == <<nvars, evars, xvars>>

MaxFrames == 3

Indices == {0, 1}

\* {"":1}, a non-empty JSON object, and [1], valid JSON that is no object;
\* every proper prefix of either is malformed JSON
ObjectText == <<"{", Q, Q, ":", "1", "}">>

ArrayText == <<"[", "1", "]">>

Wholes == {ObjectText, ArrayText}

IdFor(i) == "id_" \o ToString(i)

NameFor(i) == "fn_" \o ToString(i)

Usage1 == <<7, 5, 12>>

Chunk(hc, c, tcs, fr, u, fp) ==
    [has_choice |-> hc, content |-> c, tool_calls |-> tcs, finish_reason |-> fr,
     usage |-> u, system_fingerprint |-> fp]

NoChunk == Chunk(FALSE, None, {}, None, NoUsage, None)

Delta(i, d, n, a) == [index |-> i, id |-> d, name |-> n, arguments |-> a]

\* the fragments the upstream can send next for index i: the non-empty
\* prefixes of what is pending
Fragments(i) == { SubSeq(pending[i], 1, k) : k \in 1..Len(pending[i]) }

\* the deltas it can send for index i: the id and the name with empty
\* arguments or with a fragment, or a fragment alone
Deltas(i) ==
    { Delta(i, IdFor(i), NameFor(i), a) : a \in {<<>>} \cup Fragments(i) }
    \cup { Delta(i, None, None, a) : a \in Fragments(i) }

\* the next character of index i alone, when one is pending
NextChar(i) ==
    IF pending[i] = <<>> THEN {}
    ELSE {Delta(i, None, None, SubSeq(pending[i], 1, 1))}

\* no delta, one delta, or two deltas of different indices in either order,
\* each the next character of its index
DeltaSeqs ==
    { <<>> }
    \cup { <<d>> : d \in UNION { Deltas(i) : i \in Indices } }
    \cup UNION { { <<d, e>> : d \in NextChar(p[1]), e \in NextChar(p[2]) } :
                   p \in { q \in Indices \X Indices : q[1] # q[2] } }

\* frames of a tool-calling response
ToolFrames ==
    { Chunk(TRUE, None, tcs, fr, NoUsage, None) :
        tcs \in DeltaSeqs, fr \in {None, "tool_calls"} }

\* frames of text, finish reason and side-channel data, with or without a choice
SideFrames ==
    { Chunk(TRUE, c, <<>>, None, NoUsage, None) : c \in {"", "a"} }
    \cup { Chunk(TRUE, None, <<>>, fr, u, fp) :
             fr \in {None, "stop"}, u \in {NoUsage, Usage1}, fp \in {None, "fp_1"} }
    \cup { Chunk(FALSE, None, <<>>, None, u, fp) :
             u \in {NoUsage, Usage1}, fp \in {None, "fp_1"} }

RECURSIVE IndicesOf(_)
IndicesOf(deltas) ==
    IF deltas = <<>> THEN {}
    ELSE {Head(deltas).index} \cup IndicesOf(Tail(deltas))

\* what is kept of a pulled frame: its tool-call deltas as the set of their
\* indices
Summary(chunk) == [chunk EXCEPT !.tool_calls = IndicesOf(chunk.tool_calls)]

RECURSIVE SentLen(_, _)
\* the number of characters of the arguments of index i in the deltas
SentLen(deltas, i) ==
    IF deltas = <<>> THEN 0
    ELSE (IF Head(deltas).index = i /\ Head(deltas).arguments # NoArgs
          THEN Len(Head(deltas).arguments) ELSE 0) + SentLen(Tail(deltas), i)

RECURSIVE Arrived(_, _)
Arrived(order, deltas) ==
    IF deltas = <<>> THEN order
    ELSE Arrived(IF \E k \in 1..Len(order) : order[k] = Head(deltas).index
                 THEN order ELSE Append(order, Head(deltas).index),
                 Tail(deltas))

RECURSIVE Supplied(_, _)
\* the first non-empty id of each index, after the deltas
Supplied(first, deltas) ==
    IF deltas = <<>> THEN first
    ELSE LET d == Head(deltas) IN
         Supplied(IF first[d.index] = None /\ Truthy(d.id)
                  THEN [first EXCEPT ![d.index] = d.id] ELSE first,
                  Tail(deltas))

RECURSIVE Named(_, _)
\* the last non-empty name borne for each index, after the deltas
Named(latest, deltas) ==
    IF deltas = <<>> THEN latest
    ELSE LET d == Head(deltas) IN
         Named(IF Truthy(d.name) THEN [latest EXCEPT ![d.index] = d.name] ELSE latest,
               Tail(deltas))

\* a local that no statement has assigned yet
Unbound == <<"<unbound>">>

\* no response was given yet
NoDocument == [kind |-> "none", status |-> 0]

\* the locals of the non-streaming branch when its loop begins: nothing in
\* chat_completions assigns response_text before the loop
DocStart ==
    [cursor |-> 0, total_usage |-> NoUsage, system_fingerprint |-> None,
     response_text |-> Unbound, document |-> NoDocument]

NoRequest == <<>>

\* no key: the header is absent or empty, and what validate_key returns
\* when it returns None
NoKey == <<>>

\* an APIKeyManager without storage, after __init__
EmptyManager == [keys |-> <<>>, hash_to_key |-> <<>>]

\* verify_api_key was not called yet
NoAnswer == [raw |-> NoKey, key |-> NoKey, status |-> 0]

\* the file at storage_path does not exist
NoFile == <<>>

\* no call of the manager was made yet
NotCalled == [op |-> "none", key_id |-> NoKey, ok |-> FALSE, count |-> 0]

\* find_skills was not called yet
NotAsked == [asked |-> FALSE, raised |-> FALSE, value |-> <<>>]

\* the process when it starts: no key was issued, no skill is loaded and
\* nothing was asked
InitGlobal ==
    /\ manager = EmptyManager
    /\ now = 0
    /\ nkeys = 0
    /\ dead = {}
    /\ answer = NoAnswer
    /\ storage = NoFile
    /\ called = NotCalled
    /\ skills = <<>>
    /\ query = <<>>
    /\ matched = NotAsked
    /\ session = <<>>

\* the process of InitGlobal, with the catalog and what the session holds
InitProcess(catalog, sess) ==
    /\ manager = EmptyManager
    /\ now = 0
    /\ nkeys = 0
    /\ dead = {}
    /\ answer = NoAnswer
    /\ storage = NoFile
    /\ called = NotCalled
    /\ skills = catalog
    /\ query = <<>>
    /\ matched = NotAsked
    /\ session = sess

\* ChatMessage(role, content)
ChatMessage(role, content) == [role |-> role, content |-> content]

\* run_turn has not read the session yet
NotRead == [read |-> FALSE, messages |-> <<>>]

\* a request with one user message of eight characters
OneMessage == << ChatMessage("user", <<"q", "u", "e", "s", "t", "i", "o", "n">>) >>

\* the variables of a request with the messages msgs and the uuid cid, whose
\* upstream means to send w, when it starts
InitOne(w, msgs, cid) ==
    /\ pc = "connect"
    /\ tool_calls_buffer = <<>>
    /\ events = <<>>
    /\ whole = w
    /\ pending = w
    /\ last = NoChunk
    /\ arrival = <<>>
    /\ nframes = 0
    /\ contents = <<>>
    /\ failed = FALSE
    /\ due_usage = NoUsage
    /\ due_fingerprint = None
    /\ supplied = [i \in Indices |-> None]
    /\ named = [i \in Indices |-> None]
    /\ wire = <<>>
    /\ total_usage = NoUsage
    /\ system_fingerprint = None
    /\ cursor = 0
    /\ completion_id = cid
    /\ messages = msgs
    /\ turn_input = NotRead
    /\ doc = DocStart

\* the state at the start of a request that runs alone
InitRequest(w, msgs, cid) ==
    /\ InitOne(w, msgs, cid)
    /\ enc_pc = "start"
    /\ parked = NoRequest
    /\ authorization = NoKey
    /\ InitGlobal

\* the state at the start of a request whose upstream means to send w
InitWith(w) == InitRequest(w, OneMessage, "u1")

\* the upstream means to send the object for one index and the array for
\* the other
Init == \E w \in { f \in [Indices -> Wholes] : f[0] # f[1] } : InitWith(w)

\* stream = await client.chat.completions.create(**params) returns
Connect ==
    /\ pc = "connect"
    /\ pc' = "stream"
    /\ UNCHANGED <<tool_calls_buffer, events, whole, pending, last, arrival, nframes,
                   contents, failed, due_usage, due_fingerprint, supplied, named, evars, xvars>>

ErrorEvent == LLMResponse("error", "upstream failure", <<>>, None, NoUsage)

\* create raises: except Exception yields the error
ConnectFail ==
    /\ pc = "connect"
    /\ pc' = "closed"
    /\ events' = Append(events, ErrorEvent)
    /\ failed' = TRUE
    /\ UNCHANGED <<tool_calls_buffer, whole, pending, last, arrival, nframes, contents,
                   due_usage, due_fingerprint, supplied, named, evars, xvars>>

\* one pass of the loop body for the frame chunk
Pull(chunk) ==
    /\ pc = "stream"
    /\ nframes < MaxFrames
    /\ LET buf == ChunkBuffer(tool_calls_buffer, chunk) IN
        /\ tool_calls_buffer' = buf
        /\ events' = events \o ChunkEvents(buf, chunk)
    /\ pending' = [i \in Indices |->
                     SubSeq(pending[i], SentLen(chunk.tool_calls, i) + 1,
                            Len(pending[i]))]
    /\ last' = Summary(chunk)
    /\ arrival' = Arrived(arrival, chunk.tool_calls)
    /\ nframes' = nframes + 1
    /\ contents' = IF chunk.has_choice /\ chunk.content # None
                   THEN Append(contents, chunk.content) ELSE contents
    /\ due_usage' = IF chunk.has_choice /\ Truthy(chunk.finish_reason)
                    THEN chunk.usage
                    ELSE IF chunk.usage # NoUsage THEN NoUsage ELSE due_usage
    /\ due_fingerprint' = IF chunk.has_choice /\ Truthy(chunk.finish_reason)
                          THEN chunk.system_fingerprint
                          ELSE IF Truthy(chunk.system_fingerprint) THEN None
                          ELSE due_fingerprint
    /\ supplied' = Supplied(supplied, chunk.tool_calls)
    /\ named' = Named(named, chunk.tool_calls)
    /\ UNCHANGED <<pc, whole, failed, evars, xvars>>

PullTool == \E chunk \in ToolFrames : Pull(chunk)

PullSide == \E chunk \in SideFrames : Pull(chunk)

\* StreamFail that goes on with the loop after the error
StreamFail_Continue ==
    /\ pc = "stream"
    /\ events' = Append(events, ErrorEvent)
    /\ failed' = TRUE
    /\ UNCHANGED <<pc, tool_calls_buffer, whole, pending, last, arrival, nframes,
                   contents, due_usage, due_fingerprint, supplied, named, evars, xvars>>

\* the iteration over the upstream raises: except Exception yields the error
StreamFail ==
    /\ pc = "stream"
    /\ pc' = "closed"
    /\ events' = Append(events, ErrorEvent)
    /\ failed' = TRUE
    /\ UNCHANGED <<tool_calls_buffer, whole, pending, last, arrival, nframes, contents,
                   due_usage, due_fingerprint, supplied, named, evars, xvars>>

\* the upstream is exhausted: the loop and the generator end
StreamEnd ==
    /\ pc = "stream"
    /\ pc' = "closed"
    /\ UNCHANGED <<tool_calls_buffer, events, whole, pending, last, arrival, nframes,
                   contents, failed, due_usage, due_fingerprint, supplied, named, evars, xvars>>

Next == Connect \/ ConnectFail \/ PullTool \/ StreamFail \/ StreamEnd

Spec == Init /\ [][Next]_vars

InitSide == InitWith([i \in Indices |-> ArrayText])

NextSide == Connect \/ ConnectFail \/ PullSide \/ StreamFail \/ StreamEnd

SpecSide == InitSide /\ [][NextSide]_vars

\* the ids a delta can bear: absent, empty, or one of two ids
HeadIds == {None, "", "id_a", "id_b"}

\* a delta of index i with any id, with or without the name, and with no
\* arguments or the next pending character
HeadDeltas(i) ==
    { Delta(i, d, n, a) :
        d \in HeadIds, n \in {None, NameFor(i)},
        a \in {NoArgs} \cup { SubSeq(pending[i], 1, k) : k \in 1..(IF pending[i] = <<>> THEN 0 ELSE 1) } }

\* frames of one tool-call delta whose id varies from fragment to fragment
HeadFrames ==
    { Chunk(TRUE, None, <<d>>, fr, NoUsage, None) :
        d \in UNION { HeadDeltas(i) : i \in Indices }, fr \in {None, "tool_calls"} }

PullHead == \E chunk \in HeadFrames : Pull(chunk)

NextHead == Connect \/ ConnectFail \/ PullHead \/ StreamFail \/ StreamEnd

SpecHead == InitSide /\ [][NextHead]_vars

\* the names a delta can bear: absent, empty, or one of two names
HeadNames == {None, "", "fn_a", "fn_b"}

\* a delta of index i with its id and any name, and with no arguments or
\* the next pending character
NameDeltas(i) ==
    { Delta(i, IdFor(i), n, a) :
        n \in HeadNames,
        a \in {NoArgs} \cup { SubSeq(pending[i], 1, k) : k \in 1..(IF pending[i] = <<>> THEN 0 ELSE 1) } }

\* frames of one tool-call delta whose name varies from fragment to fragment
NameFrames ==
    { Chunk(TRUE, None, <<d>>, fr, NoUsage, None) :
        d \in UNION { NameDeltas(i) : i \in Indices }, fr \in {None, "tool_calls"} }

PullName == \E chunk \in NameFrames : Pull(chunk)

NextName == Connect \/ ConnectFail \/ PullName \/ StreamFail \/ StreamEnd

SpecName == InitSide /\ [][NextName]_vars


(***************************************************************************)
(* The wire encoder: stream_response, fed by runtime.run_turn.             *)
(* run_turn is not part of the sources at hand.  It is taken to pass on    *)
(* the events of the provider in order, one at a time and on demand, and   *)
(* to end when the provider has ended.                                     *)
(* A completed tool call is taken to surface as a "tool_use" event         *)
(* followed by the "tool_result" event of its execution, both keyed by the *)
(* id of the call.                                                         *)
(* A runtime event is [type, text, usage, system_fingerprint]: text is     *)
(* data["delta"]["text"], None when absent; a tool event has data["id"],   *)
(* data["tool"] and, as payload, data["input"] or data["result"] as well.  *)
(* A wire frame is a chunk [kind, role, content, tool_calls,               *)
(* finish_reason, usage, system_fingerprint], the sentinel "data: [DONE]", *)
(* or the frame of the except branch.                                      *)
(***************************************************************************)
Event(t, x, u, fp) ==
    [type |-> t, text |-> x, usage |-> u, system_fingerprint |-> fp]

\* the runtime event run_turn yields for the event r of the provider
RunTurnEvent(r) ==
    IF r.type = "text_delta" THEN Event("assistant", r.content, NoUsage, None)
    ELSE IF r.type = "metadata" THEN Event("metadata", None, NoUsage, r.content)
    ELSE IF r.type = "usage" THEN Event("usage", None, r.usage, None)
    ELSE Event(r.type, None, NoUsage, None)

ToolEvent(t, d, n, p) ==
    [type |-> t, text |-> None, usage |-> NoUsage, system_fingerprint |-> None,
     id |-> d, tool |-> n, payload |-> p]

\* the input of a tool request: the arguments of the completed call, parsed
\* when they are a JSON string
InputOf(arguments) ==
    IF arguments.type = "str"
    THEN LET r == json_loads(arguments.repr) IN [type |-> r.type, repr |-> r.repr]
    ELSE arguments

\* what running a tool returns
ToolOutput == [type |-> "str", repr |-> <<"o", "k">>]

RECURSIVE ToolEvents(_)
\* the request and the result of each completed call, call by call
ToolEvents(tcs) ==
    IF tcs = <<>> THEN <<>>
    ELSE LET tc == Head(tcs) IN
         <<ToolEvent("tool_use", tc.id, tc.name, InputOf(tc.arguments)),
           ToolEvent("tool_result", tc.id, tc.name, ToolOutput)>>
         \o ToolEvents(Tail(tcs))

\* the runtime events run_turn yields for the event r of the provider
RunTurnEvents(r) ==
    IF r.type = "tool_call" THEN ToolEvents(r.tool_calls) ELSE <<RunTurnEvent(r)>>

RECURSIVE TurnEvents(_)
\* the runtime events run_turn yields for the events evs of the provider
TurnEvents(evs) ==
    IF evs = <<>> THEN <<>>
    ELSE RunTurnEvents(Head(evs)) \o TurnEvents(Tail(evs))

\* run_turn has nothing more to yield
TurnOver == pc = "closed" /\ cursor = Len(TurnEvents(events))

\* the provider runs only when run_turn asks it for its next event
Demand == enc_pc = "loop" /\ cursor = Len(TurnEvents(events))

\* f"chatcmpl-{uuid.uuid4().hex[:24]}"
chatcmpl_(u) == "chatcmpl-" \o u

\* a chunk of the request: every chunk is built with id=completion_id
WireChunk(r, c, fr, u, fp) ==
    [kind |-> "chunk", id |-> chatcmpl_(completion_id), role |-> r, content |-> c,
     tool_calls |-> <<>>, finish_reason |-> fr, usage |-> u,
     system_fingerprint |-> fp]

Sentinel ==
    [kind |-> "sentinel", id |-> None, role |-> None, content |-> None,
     tool_calls |-> <<>>, finish_reason |-> None, usage |-> NoUsage,
     system_fingerprint |-> None]

\* f"data: {error_chunk}\n\n"
ErrorFrame ==
    [kind |-> "error", id |-> None, role |-> None, content |-> None,
     tool_calls |-> <<>>, finish_reason |-> None, usage |-> NoUsage,
     system_fingerprint |-> None]

\* the names the module binds at its top level before chat_completions runs:
\* its imports, its classes and its module-level assignments and functions
ModuleGlobals ==
    {"logging", "os", "time", "uuid", "AsyncIterator", "APIRouter", "Header",
     "HTTPException", "StreamingResponse", "BaseModel", "AgentRuntime",
     "SessionManager", "get_prompt_manager", "logger", "router",
     "ChatMessage", "ChatCompletionRequest", "ChatCompletionChoice",
     "ChatCompletionUsage", "ChatCompletionResponse", "ChatCompletionChunkDelta",
     "ChatCompletionChunkChoice", "ChatCompletionChunk", "ModelInfo",
     "ModelsResponse", "AVAILABLE_MODELS", "_runtime", "_session_manager",
     "set_runtime", "set_session_manager", "_map_model_name", "list_models",
     "get_model", "chat_completions"}

\* looking the name up raises NameError
NameError(name) == name \notin ModuleGlobals

\* uuid.uuid4().hex[:12]
Uuids == {"u1", "u2"}

\* the chunk of the tool_use branch, u being the uuid drawn
ToolUseChunk(event, fp, u) ==
    [WireChunk(None, None, None, NoUsage, fp) EXCEPT
        !.tool_calls = <<[id |-> "call_" \o u,
                          type |-> "function",
                          name |-> event.tool,
                          arguments |-> json_dumps(event.payload)]>>]

\* the chunk of the tool_result branch
ToolResultChunk(event, fp) ==
    [WireChunk(None, None, None, NoUsage, fp) EXCEPT
        !.tool_calls = <<[index |-> 0,
                          id |-> event.id,
                          type |-> "function",
                          name |-> event.tool,
                          output |-> event.payload]>>]

\* the loop body raises for the event: the tool_use branch evaluates
\* json.dumps
Raises(event) == event.type = "tool_use" /\ NameError("json")

initial_chunk == WireChunk("assistant", None, None, NoUsage, None)

\* EventChunks whose content chunks repeat the role
EventChunks_WithRole(event, fp, u) ==
    IF event.type = "assistant" /\ event.text # None
    THEN <<WireChunk("assistant", event.text, None, NoUsage, fp)>>
    ELSE IF event.type = "tool_use" THEN <<ToolUseChunk(event, fp, u)>>
    ELSE IF event.type = "tool_result" THEN <<ToolResultChunk(event, fp)>>
    ELSE <<>>

\* EventChunks that yields no chunk for an empty text
EventChunks_SkipEmpty(event, fp, u) ==
    IF event.type = "assistant" /\ Truthy(event.text)
    THEN <<WireChunk(None, event.text, None, NoUsage, fp)>>
    ELSE IF event.type = "tool_use" THEN <<ToolUseChunk(event, fp, u)>>
    ELSE IF event.type = "tool_result" THEN <<ToolResultChunk(event, fp)>>
    ELSE <<>>

\* the frames the loop body yields for the event, u being the uuid drawn
EventChunks(event, fp, u) ==
    IF event.type = "assistant" /\ event.text # None
    THEN <<WireChunk(None, event.text, None, NoUsage, fp)>>
    ELSE IF event.type = "tool_use" THEN <<ToolUseChunk(event, fp, u)>>
    ELSE IF event.type = "tool_result" THEN <<ToolResultChunk(event, fp)>>
    ELSE <<>>

\* EventFingerprint that keeps the first fingerprint it saw
EventFingerprint_KeepFirst(event, fp) ==
    IF event.type = "metadata" /\ fp = None THEN event.system_fingerprint ELSE fp

\* system_fingerprint after the loop body for the event
EventFingerprint(event, fp) ==
    IF event.type = "metadata" THEN event.system_fingerprint ELSE fp

\* EventUsage that keeps the first usage it saw
EventUsage_KeepFirst(event, u) ==
    IF event.type = "usage" /\ u = NoUsage THEN event.usage ELSE u

\* total_usage after the loop body for the event
EventUsage(event, u) ==
    IF event.type = "usage" THEN event.usage ELSE u

final_chunk == WireChunk(None, None, "stop", total_usage, system_fingerprint)

\* the role chunk is yielded and the locals are set
StartStream ==
    /\ enc_pc = "start"
    /\ enc_pc' = "loop"
    /\ wire' = Append(wire, initial_chunk)
    /\ total_usage' = NoUsage
    /\ system_fingerprint' = None
    /\ UNCHANGED <<cursor, nvars, xvars>>

\* one pass of the loop body, for the next event of the turn; when it
\* raises, except Exception yields the error frame and the generator ends
OnEvent ==
    /\ enc_pc = "loop"
    /\ cursor < Len(TurnEvents(events))
    /\ LET event == TurnEvents(events)[cursor + 1] IN
        IF Raises(event)
        THEN /\ wire' = Append(wire, ErrorFrame)
             /\ enc_pc' = "done"
             /\ UNCHANGED <<system_fingerprint, total_usage>>
        ELSE /\ \E u \in Uuids :
                    wire' = wire \o EventChunks(event, system_fingerprint, u)
             /\ system_fingerprint' = EventFingerprint(event, system_fingerprint)
             /\ total_usage' = EventUsage(event, total_usage)
             /\ enc_pc' = enc_pc
    /\ cursor' = cursor + 1
    /\ UNCHANGED <<nvars, xvars>>

\* EndStream that yields the sentinel before the final chunk
EndStream_SentinelFirst ==
    /\ enc_pc = "loop"
    /\ TurnOver
    /\ enc_pc' = "done"
    /\ wire' = wire \o <<Sentinel, final_chunk>>
    /\ UNCHANGED <<total_usage, system_fingerprint, cursor, nvars, xvars>>

\* the turn is over: the final chunk and the sentinel are yielded
EndStream ==
    /\ enc_pc = "loop"
    /\ TurnOver
    /\ enc_pc' = "done"
    /\ wire' = wire \o <<final_chunk, Sentinel>>
    /\ UNCHANGED <<total_usage, system_fingerprint, cursor, nvars, xvars>>

Usage2 == <<3, 1, 4>>

\* the frames of SideFrames, and frames with a second usage or fingerprint
PipeFrames ==
    SideFrames
    \cup { Chunk(TRUE, None, <<>>, fr, Usage2, None) : fr \in {None, "stop"} }
    \cup { Chunk(TRUE, None, <<>>, None, NoUsage, "fp_2") }

PipeConnect == Demand /\ Connect

PipeConnectFail == Demand /\ ConnectFail

PipePull == Demand /\ \E chunk \in PipeFrames : Pull(chunk)

PipeStreamFail == Demand /\ StreamFail

PipeStreamEnd == Demand /\ StreamEnd

NextPipe ==
    \/ StartStream \/ OnEvent \/ EndStream
    \/ PipeConnect \/ PipeConnectFail \/ PipePull \/ PipeStreamFail \/ PipeStreamEnd

SpecPipe == InitSide /\ [][NextPipe]_vars

\* frames of a turn that answers with text and a tool call: text frames,
\* frames with the id and the name of the call of index 0, with or without
\* text, and finish frames with or without usage and fingerprint
TurnFrames ==
    { Chunk(TRUE, c, <<>>, None, NoUsage, None) : c \in {"", "a", "b"} }
    \cup { Chunk(TRUE, c, <<Delta(0, IdFor(0), NameFor(0), <<>>)>>, fr, NoUsage, None) :
             c \in {None, "a"}, fr \in {None, "tool_calls"} }
    \cup { Chunk(TRUE, None, <<>>, "stop", u, fp) :
             u \in {NoUsage, Usage1}, fp \in {None, "fp_1"} }

TurnPull == Demand /\ \E chunk \in TurnFrames : Pull(chunk)

NextTurn ==
    \/ StartStream \/ OnEvent \/ EndStream
    \/ PipeConnect \/ PipeConnectFail \/ TurnPull \/ PipeStreamFail \/ PipeStreamEnd

SpecTurn == InitSide /\ [][NextTurn]_vars

(***************************************************************************)
(* The client goes away.  The server closes stream_response where it is    *)
(* suspended, at a yield: the exception thrown there is no Exception, so   *)
(* no frame follows.  Neither stream_response nor OpenAIProvider.stream    *)
(* has a finally or a with block: the provider's generator stays           *)
(* suspended, with its stream and its locals, until the interpreter        *)
(* finalizes it.                                                           *)
(***************************************************************************)
\* the stream returned by create is held: it was neither exhausted nor has
\* its iteration raised, and the generator that holds it has not ended
UpstreamHeld == pc = "stream"

\* the client transport closes while the generator is suspended at a yield
ClientClose ==
    /\ enc_pc = "loop"
    /\ enc_pc' = "cancelled"
    /\ UNCHANGED <<wire, total_usage, system_fingerprint, cursor, nvars, xvars>>

\* stream_response has ended one way or another
Exited == enc_pc \in {"done", "cancelled"}

\* the interpreter finalizes the abandoned generator of the provider: it
\* ends at its yield and yields nothing
Finalize ==
    /\ Exited
    /\ pc = "stream"
    /\ pc' = "closed"
    /\ UNCHANGED <<tool_calls_buffer, events, whole, pending, last, arrival, nframes,
                   contents, failed, due_usage, due_fingerprint, supplied, named, evars, xvars>>

NextCancel == NextTurn \/ ClientClose \/ Finalize

SpecCancel == InitSide /\ [][NextCancel]_vars

(***************************************************************************)
(* The non-streaming branch of chat_completions, run on the events of the  *)
(* same turn.  Its statements are indented as the body of a try whose      *)
(* except Exception raises HTTPException(500); the try line itself and an  *)
(* assignment to response_text are not in the source.  A text is a         *)
(* sequence of one-character strings.                                      *)
(***************************************************************************)
\* the characters of a text of the model
Chars(text) == IF text = "" THEN <<>> ELSE <<text>>

\* the content of a message that has none
NoContent == <<None>>

RECURSIVE PromptTokens(_)
\* sum(len(m.content) // 4 for m in request.messages if m.content)
PromptTokens(msgs) ==
    IF msgs = <<>> THEN 0
    ELSE (IF Head(msgs).content # NoContent /\ Head(msgs).content # <<>>
          THEN Len(Head(msgs).content) \div 4 ELSE 0) + PromptTokens(Tail(msgs))

\* the fallback estimation: prompt, completion and total tokens
Estimate(msgs, text) ==
    <<PromptTokens(msgs), Len(text) \div 4, PromptTokens(msgs) + Len(text) \div 4>>

\* raise HTTPException(status_code=500, ...)
Http500 == [kind |-> "error", status |-> 500]

ChatCompletionResponse(cid, text, u, fp) ==
    [kind |-> "completion", status |-> 200, id |-> chatcmpl_(cid),
     object |-> "chat.completion",
     choices |-> <<[index |-> 0, role |-> "assistant", content |-> text,
                    finish_reason |-> "stop"]>>,
     usage |-> u, system_fingerprint |-> fp]

\* the locals after the loop body for the event; reading response_text
\* while it is unbound raises UnboundLocalError, which ends in the 500
DocAfter(d, event) ==
    IF event.type = "assistant" /\ event.text # None
    THEN IF d.response_text = Unbound
         THEN [d EXCEPT !.document = Http500]
         ELSE [d EXCEPT !.response_text = @ \o Chars(event.text)]
    ELSE IF event.type = "usage" THEN [d EXCEPT !.total_usage = event.usage]
    ELSE IF event.type = "metadata"
         THEN [d EXCEPT !.system_fingerprint = event.system_fingerprint]
    ELSE d

\* the response after the loop: the estimate when no usage was reported,
\* then the document; both read response_text
DocResponse(d, cid, msgs) ==
    IF d.response_text = Unbound THEN Http500
    ELSE ChatCompletionResponse(
             cid, d.response_text,
             IF d.total_usage = NoUsage THEN Estimate(msgs, d.response_text)
             ELSE d.total_usage,
             d.system_fingerprint)

\* one pass of the non-streaming loop body
DocOnEvent ==
    /\ doc.document = NoDocument
    /\ doc.cursor < Len(TurnEvents(events))
    /\ doc' = [DocAfter(doc, TurnEvents(events)[doc.cursor + 1])
                 EXCEPT !.cursor = @ + 1]
    /\ UNCHANGED <<nvars, evars, completion_id, messages, parked, authorization,
                   turn_input, gvars>>

\* the turn is over: the non-streaming branch answers
DocEnd ==
    /\ doc.document = NoDocument
    /\ pc = "closed"
    /\ doc.cursor = Len(TurnEvents(events))
    /\ doc' = [doc EXCEPT !.document = DocResponse(doc, completion_id, messages)]
    /\ UNCHANGED <<nvars, evars, completion_id, messages, parked, authorization,
                   turn_input, gvars>>

\* requests of one or two messages, with and without content
Requests ==
    { OneMessage, <<ChatMessage("user", NoContent)>>,
      <<ChatMessage("user", <<"h", "i">>), ChatMessage("assistant", <<>>)>>,
      <<ChatMessage("system", <<"s", "y", "s", "t", "e", "m">>),
        ChatMessage("user", <<"u", "s", "e", "r">>)>> }

InitDoc == \E msgs \in Requests : InitRequest([i \in Indices |-> ArrayText], msgs, "u1")

NextDoc == NextTurn \/ DocOnEvent \/ DocEnd

SpecDoc == InitDoc /\ [][NextDoc]_vars

(***************************************************************************)
(* Two streaming requests in one process.  The event loop runs one         *)
(* coroutine at a time and switches at an await or a yield, that is        *)
(* between two steps of the model; the locals of a suspended generator     *)
(* stay with it.  The variables describe the request that runs, parked     *)
(* the one that is suspended.                                              *)
(***************************************************************************)
\* the variables of the running request, as a record
Current ==
    [pc |-> pc, tool_calls_buffer |-> tool_calls_buffer, events |-> events,
     whole |-> whole, pending |-> pending, last |-> last, arrival |-> arrival,
     nframes |-> nframes, contents |-> contents, failed |-> failed,
     due_usage |-> due_usage, due_fingerprint |-> due_fingerprint,
     supplied |-> supplied, named |-> named, enc_pc |-> enc_pc, wire |-> wire,
     total_usage |-> total_usage, system_fingerprint |-> system_fingerprint,
     cursor |-> cursor, completion_id |-> completion_id, messages |-> messages,
     doc |-> doc, authorization |-> authorization, turn_input |-> turn_input]

\* a request that has not begun, with the uuid cid
Fresh(cid) ==
    [pc |-> "connect", tool_calls_buffer |-> <<>>, events |-> <<>>,
     whole |-> [i \in Indices |-> ArrayText],
     pending |-> [i \in Indices |-> ArrayText], last |-> NoChunk,
     arrival |-> <<>>, nframes |-> 0, contents |-> <<>>, failed |-> FALSE,
     due_usage |-> NoUsage, due_fingerprint |-> None,
     supplied |-> [i \in Indices |-> None],
     named |-> [i \in Indices |-> None], enc_pc |-> "start", wire |-> <<>>,
     total_usage |-> NoUsage, system_fingerprint |-> None, cursor |-> 0,
     completion_id |-> cid, messages |-> OneMessage, doc |-> DocStart,
     authorization |-> NoKey, turn_input |-> NotRead]

\* Switch when the accumulators are kept in one place for all requests
Switch_SharedBuffer ==
    /\ parked' = [Current EXCEPT !.tool_calls_buffer = parked.tool_calls_buffer]
    /\ pc' = parked.pc
    /\ UNCHANGED tool_calls_buffer
    /\ events' = parked.events
    /\ whole' = parked.whole
    /\ pending' = parked.pending
    /\ last' = parked.last
    /\ arrival' = parked.arrival
    /\ nframes' = parked.nframes
    /\ contents' = parked.contents
    /\ failed' = parked.failed
    /\ due_usage' = parked.due_usage
    /\ due_fingerprint' = parked.due_fingerprint
    /\ supplied' = parked.supplied
    /\ named' = parked.named
    /\ enc_pc' = parked.enc_pc
    /\ wire' = parked.wire
    /\ total_usage' = parked.total_usage
    /\ system_fingerprint' = parked.system_fingerprint
    /\ cursor' = parked.cursor
    /\ completion_id' = parked.completion_id
    /\ messages' = parked.messages
    /\ doc' = parked.doc
    /\ authorization' = parked.authorization
    /\ turn_input' = parked.turn_input
    /\ UNCHANGED gvars

\* the running request is suspended and the other one resumes where it was
Switch ==
    /\ parked' = Current
    /\ pc' = parked.pc
    /\ tool_calls_buffer' = parked.tool_calls_buffer
    /\ events' = parked.events
    /\ whole' = parked.whole
    /\ pending' = parked.pending
    /\ last' = parked.last
    /\ arrival' = parked.arrival
    /\ nframes' = parked.nframes
    /\ contents' = parked.contents
    /\ failed' = parked.failed
    /\ due_usage' = parked.due_usage
    /\ due_fingerprint' = parked.due_fingerprint
    /\ supplied' = parked.supplied
    /\ named' = parked.named
    /\ enc_pc' = parked.enc_pc
    /\ wire' = parked.wire
    /\ total_usage' = parked.total_usage
    /\ system_fingerprint' = parked.system_fingerprint
    /\ cursor' = parked.cursor
    /\ completion_id' = parked.completion_id
    /\ messages' = parked.messages
    /\ doc' = parked.doc
    /\ authorization' = parked.authorization
    /\ turn_input' = parked.turn_input
    /\ UNCHANGED gvars

\* each request receives at most this many frames when two run together
MaxPairFrames == 2

\* frames of a short turn: a text, a tool call with the finish reason, and
\* a finish frame with usage and fingerprint
PairFrames ==
    { Chunk(TRUE, "a", <<>>, None, NoUsage, None),
      Chunk(TRUE, None, <<Delta(0, IdFor(0), NameFor(0), <<>>)>>, "tool_calls",
            NoUsage, None),
      Chunk(TRUE, None, <<>>, "stop", Usage1, "fp_1") }

PairPull ==
    /\ Demand
    /\ nframes < MaxPairFrames
    /\ \E chunk \in PairFrames : Pull(chunk)

\* the two requests draw their uuids independently
InitPair ==
    \E c \in Uuids : \E d \in Uuids :
        /\ InitOne([i \in Indices |-> ArrayText], OneMessage, c)
        /\ enc_pc = "start"
        /\ parked = Fresh(d)
        /\ authorization = NoKey
        /\ InitGlobal

NextPair ==
    \/ StartStream \/ OnEvent \/ EndStream
    \/ PipeConnect \/ PipeConnectFail \/ PairPull \/ PipeStreamFail \/ PipeStreamEnd
    \/ Switch

SpecPair == InitPair /\ [][NextPair]_vars

(***************************************************************************)
(* The API keys (auth/api_keys.py).  A raw key is a string, here the       *)
(* sequence of its parts: the prefix and the characters of the token.      *)
(* secrets.token_urlsafe draws a token no earlier call drew: the n-th      *)
(* call of create_key draws the n-th key id and the n-th token.  A time    *)
(* is a number of days; a time that may be None is <<>> or <<t>>.          *)
(***************************************************************************)
\* at most this many keys are issued
MaxKeys == 2

\* the days of the clock
Times == {0, 1, 2}

\* secrets.token_urlsafe(16), at the n-th call of create_key
KeyId(n) == [i \in 1..n |-> "k"]

\* f"clb_{secrets.token_urlsafe(32)}", at the n-th call of create_key
RawKey(n) == <<"clb_">> \o [i \in 1..n |-> "x"]

\* raw_key.startswith("clb_")
StartsWithClb(raw_key) == Len(raw_key) >= 1 /\ raw_key[1] = "clb_"

\* hashlib.sha256(raw_key.encode()).hexdigest(): different keys have
\* different digests
_hash_key(raw_key) == <<"sha256">> \o raw_key

\* a dict without the key k
Without(d, k) == [x \in DOMAIN d \ {k} |-> d[x]]

\* a dict after d[k] = v
With(d, k, v) == [x \in DOMAIN d \cup {k} |-> IF x = k THEN v ELSE d[x]]

\* APIKey.is_valid at the time t
is_valid(api_key, t) ==
    IF ~api_key.enabled THEN FALSE
    ELSE IF api_key.expires_at # <<>> /\ t > api_key.expires_at[1] THEN FALSE
    ELSE TRUE

\* the manager after create_key at the time t, which drew the id key_id and
\* the raw key raw_key; expires_days is 0 when the key does not expire, and
\* permissions is empty when the caller gives none or gives an empty set
create_key(m, key_id, raw_key, expires_days, permissions, t) ==
    LET api_key == [key_id |-> key_id,
                    key_hash |-> _hash_key(raw_key),
                    raw_key |-> raw_key,
                    expires_at |-> IF expires_days # 0 THEN <<t + expires_days>>
                                   ELSE <<>>,
                    last_used |-> <<>>,
                    permissions |-> IF permissions # {} THEN permissions
                                    ELSE {"read", "write"},
                    enabled |-> TRUE]
    IN  [keys |-> With(m.keys, key_id, api_key),
         hash_to_key |-> With(m.hash_to_key, api_key.key_hash, key_id)]

\* the key validate_key returns for raw_key at the time t, NoKey for None
validate_key(m, raw_key, t) ==
    IF raw_key = <<>> \/ ~StartsWithClb(raw_key) THEN NoKey
    ELSE LET key_hash == _hash_key(raw_key)
         IN  IF key_hash \notin DOMAIN m.hash_to_key THEN NoKey
             ELSE LET key_id == m.hash_to_key[key_hash]
                  IN  IF key_id \notin DOMAIN m.keys THEN NoKey
                      ELSE IF ~is_valid(m.keys[key_id], t) THEN NoKey
                      ELSE key_id

\* the manager after validate_key: update_last_used on the key it returns
Validated(m, raw_key, t) ==
    LET key_id == validate_key(m, raw_key, t)
    IN  IF key_id = NoKey THEN m
        ELSE [m EXCEPT !.keys[key_id].last_used = <<t>>]

\* revoke_key that leaves the key enabled
revoke_key_KeepEnabled(m, key_id) == m

\* revoke_key that disables every stored key
revoke_key_DisableAll(m, key_id) ==
    IF key_id \in DOMAIN m.keys
    THEN [m EXCEPT !.keys = [k \in DOMAIN m.keys |->
                                [m.keys[k] EXCEPT !.enabled = FALSE]]]
    ELSE m

\* the manager after revoke_key
revoke_key(m, key_id) ==
    IF key_id \in DOMAIN m.keys
    THEN [m EXCEPT !.keys[key_id].enabled = FALSE]
    ELSE m

\* delete_key that leaves the entry of the hash index
delete_key_KeepIndex(m, key_id) ==
    IF key_id \in DOMAIN m.keys
    THEN [keys |-> Without(m.keys, key_id), hash_to_key |-> m.hash_to_key]
    ELSE m

\* the manager after delete_key
delete_key(m, key_id) ==
    IF key_id \in DOMAIN m.keys
    THEN [keys |-> Without(m.keys, key_id),
          hash_to_key |-> Without(m.hash_to_key, m.keys[key_id].key_hash)]
    ELSE m

\* the ids of cleanup_expired with a test that is not strict
Expired_NotStrict(m, t) ==
    { key_id \in DOMAIN m.keys :
        m.keys[key_id].expires_at # <<>> /\ t >= m.keys[key_id].expires_at[1] }

\* the ids cleanup_expired collects at the time t
Expired(m, t) ==
    { key_id \in DOMAIN m.keys :
        m.keys[key_id].expires_at # <<>> /\ t > m.keys[key_id].expires_at[1] }

RECURSIVE DeleteAll(_, _)
\* delete_key for each of the ids
DeleteAll(m, ids) ==
    IF ids = {} THEN m
    ELSE LET key_id == CHOOSE k \in ids : TRUE
         IN  DeleteAll(delete_key(m, key_id), ids \ {key_id})

\* the manager after cleanup_expired at the time t
cleanup_expired(m, t) == DeleteAll(m, Expired(m, t))

\* datetime in JSON mode: the ISO text of a day, null for None
isoformat(d) == IF d = <<>> THEN <<>> ELSE <<"T">> \o [i \in 1..d[1] |-> "d"]

\* the datetime pydantic parses from the ISO text
fromisoformat(text) == IF text = <<>> THEN <<>> ELSE <<Len(text) - 1>>

RECURSIVE AsList(_)
\* a set in JSON mode: the list of its elements
AsList(S) ==
    IF S = {} THEN <<>>
    ELSE LET x == CHOOSE y \in S : TRUE IN <<x>> \o AsList(S \ {x})

\* a dump that writes every key as enabled
model_dump_Enabled(api_key) ==
    [key_id |-> api_key.key_id,
     key_hash |-> api_key.key_hash,
     raw_key |-> api_key.raw_key,
     expires_at |-> isoformat(api_key.expires_at),
     last_used |-> isoformat(api_key.last_used),
     permissions |-> AsList(api_key.permissions),
     enabled |-> TRUE]

\* key.model_dump(mode="json")
model_dump(api_key) ==
    [key_id |-> api_key.key_id,
     key_hash |-> api_key.key_hash,
     raw_key |-> api_key.raw_key,
     expires_at |-> isoformat(api_key.expires_at),
     last_used |-> isoformat(api_key.last_used),
     permissions |-> AsList(api_key.permissions),
     enabled |-> api_key.enabled]

\* APIKey(**key_data)
APIKey(key_data) ==
    [key_id |-> key_data.key_id,
     key_hash |-> key_data.key_hash,
     raw_key |-> key_data.raw_key,
     expires_at |-> fromisoformat(key_data.expires_at),
     last_used |-> fromisoformat(key_data.last_used),
     permissions |-> { key_data.permissions[i] :
                         i \in 1..Len(key_data.permissions) },
     enabled |-> key_data.enabled]

\* the file after save_keys
save_keys(m) == [key_id \in DOMAIN m.keys |-> model_dump(m.keys[key_id])]

\* the manager that __init__ builds with load_keys from the file
load_keys(file) ==
    [keys |-> [key_id \in DOMAIN file |-> APIKey(file[key_id])],
     hash_to_key |->
         [key_hash \in { file[key_id].key_hash : key_id \in DOMAIN file } |->
             CHOOSE key_id \in DOMAIN file : file[key_id].key_hash = key_hash]]

\* what a call of the manager on key_id returned
Call(op, key_id, ok, count) ==
    [op |-> op, key_id |-> key_id, ok |-> ok, count |-> count]

\* the request and the rest of the process, which the key manager leaves
\* alone
rvars == <<nvars, evars, completion_id, messages, doc, parked, authorization,
           turn_input, svars, session>>

\* what revoke_key and delete_key return: whether the key is stored
Stored(m, key_id) == key_id \in DOMAIN m.keys

\* create_key(name, expires_days, permissions) with no expiry or with one
\* day; it saves
Create(expires_days, permissions) ==
    /\ nkeys < MaxKeys
    /\ manager' = create_key(manager, KeyId(nkeys + 1), RawKey(nkeys + 1),
                             expires_days, permissions, now)
    /\ storage' = save_keys(manager')
    /\ nkeys' = nkeys + 1
    /\ UNCHANGED <<now, dead, answer, rvars>>

\* revoke_key(key_id): it saves when the key is stored
Revoke(key_id) ==
    /\ manager' = revoke_key(manager, key_id)
    /\ storage' = IF Stored(manager, key_id) THEN save_keys(manager')
                  ELSE storage
    /\ dead' = IF Stored(manager, key_id) THEN dead \cup {key_id} ELSE dead
    /\ UNCHANGED <<now, nkeys, answer, rvars>>

\* delete_key(key_id): it saves when the key is stored
Delete(key_id) ==
    /\ manager' = delete_key(manager, key_id)
    /\ storage' = IF Stored(manager, key_id) THEN save_keys(manager')
                  ELSE storage
    /\ dead' = IF Stored(manager, key_id) THEN dead \cup {key_id} ELSE dead
    /\ UNCHANGED <<now, nkeys, answer, rvars>>

\* cleanup_expired(): each delete_key saves, and so does the end when a key
\* was removed
Cleanup ==
    /\ manager' = cleanup_expired(manager, now)
    /\ storage' = IF Expired(manager, now) # {} THEN save_keys(manager')
                  ELSE storage
    /\ dead' = dead \cup Expired(manager, now)
    /\ UNCHANGED <<now, nkeys, answer, rvars>>

\* create_key(name, expires_days) without permissions
CreateKey ==
    /\ \E expires_days \in {0, 1} : Create(expires_days, {})
    /\ UNCHANGED called

\* the key ids a caller may name: those issued and one never issued
KeyIds == { KeyId(n) : n \in 1..(MaxKeys + 1) }

\* revoke_key(key_id)
RevokeKey ==
    /\ \E key_id \in KeyIds : Revoke(key_id)
    /\ UNCHANGED called

\* delete_key(key_id)
DeleteKey ==
    /\ \E key_id \in KeyIds : Delete(key_id)
    /\ UNCHANGED called

\* cleanup_expired()
CleanupExpired ==
    /\ Cleanup
    /\ UNCHANGED called

\* a day passes
Tick ==
    /\ now + 1 \in Times
    /\ now' = now + 1
    /\ UNCHANGED <<manager, nkeys, dead, answer, storage, called, rvars>>

\* the keys a caller may present: none, the keys create_key issues, a key
\* of the right form that is never issued, and an issued token without the
\* prefix
RawKeys ==
    {NoKey, <<"x">>} \cup { RawKey(n) : n \in 1..(MaxKeys + 1) }

\* verify_api_key(x_api_key): 401 without a key or when validate_key
\* returns None, the key otherwise; update_last_used does not save
VerifyApiKey ==
    \E x_api_key \in RawKeys :
        LET api_key == IF x_api_key = <<>> THEN NoKey
                       ELSE validate_key(manager, x_api_key, now)
        IN  /\ answer' = [raw |-> x_api_key, key |-> api_key,
                          status |-> IF api_key = NoKey THEN 401 ELSE 200]
            /\ manager' = IF x_api_key = <<>> THEN manager
                          ELSE Validated(manager, x_api_key, now)
            /\ UNCHANGED <<now, nkeys, dead, storage, called, rvars>>

InitKeys == InitWith([i \in Indices |-> ArrayText])

NextKeys ==
    \/ CreateKey \/ RevokeKey \/ DeleteKey \/ CleanupExpired \/ Tick
    \/ VerifyApiKey

SpecKeys == InitKeys /\ [][NextKeys]_vars

(***************************************************************************)
(* The manager and its file.  The callers of the manager make the calls    *)
(* below; the process may stop at any time, and the next one builds its    *)
(* manager from the file that the last save_keys left.                     *)
(***************************************************************************)
\* the permissions a caller gives to create_key
PermissionSets == {{}, {"read"}}

CreateKeyCall ==
    /\ \E expires_days \in {0, 1}, permissions \in PermissionSets :
           Create(expires_days, permissions)
    /\ called' = Call("create_key", KeyId(nkeys + 1), TRUE, 0)

RevokeKeyCall ==
    \E key_id \in KeyIds :
        /\ Revoke(key_id)
        /\ called' = Call("revoke_key", key_id, Stored(manager, key_id), 0)

DeleteKeyCall ==
    \E key_id \in KeyIds :
        /\ Delete(key_id)
        /\ called' = Call("delete_key", key_id, Stored(manager, key_id), 0)

\* cleanup_expired() returns len(expired)
CleanupExpiredCall ==
    /\ Cleanup
    /\ called' = Call("cleanup_expired", NoKey, TRUE,
                      Cardinality(Expired(manager, now)))

\* validate_key(raw_key) with the first key that create_key issues;
\* update_last_used does not save
ValidateKeyCall ==
    LET key_id == validate_key(manager, RawKey(1), now)
    IN  /\ manager' = Validated(manager, RawKey(1), now)
        /\ called' = Call("validate_key", key_id, key_id # NoKey, 0)
        /\ UNCHANGED <<now, nkeys, dead, answer, storage, rvars>>

\* the process starts again: APIKeyManager(storage_path)
Restart ==
    /\ manager' = load_keys(storage)
    /\ called' = Call("load_keys", NoKey, TRUE, 0)
    /\ UNCHANGED <<now, nkeys, dead, answer, storage, rvars>>

InitStore == InitWith([i \in Indices |-> ArrayText])

NextStore ==
    \/ CreateKeyCall \/ RevokeKeyCall \/ DeleteKeyCall \/ CleanupExpiredCall
    \/ ValidateKeyCall \/ Tick \/ Restart

SpecStore == InitStore /\ [][NextStore]_vars

(***************************************************************************)
(* The skill catalog (agents/tools/skill_loader.py).  A text is the        *)
(* sequence of its characters.  A skill is what _parse_skill_file returns: *)
(* the name, the description, which is None when the front matter has      *)
(* none, and the tags.  The catalog is a dict keyed by name, here the      *)
(* sequence of its values in insertion order.                              *)
(***************************************************************************)
\* frontmatter.get("description") when the front matter has no description
NoDescription == <<None>>

\* str.lower on one character
LowerChar(c) ==
    CASE c = "A" -> "a"
      [] c = "B" -> "b"
      [] c = "C" -> "c"
      [] OTHER -> c

\* str.lower
Lower(text) == [i \in 1..Len(text) |-> LowerChar(text[i])]

\* item in text, for two strings
Occurs(item, text) ==
    \E k \in 0..(Len(text) - Len(item)) : SubSeq(text, k + 1, k + Len(item)) = item

\* find_skills cannot build items_to_check: None has no lower()
LowerRaises(skill) == skill.description = NoDescription

\* items_to_check of find_skills
items_to_check(skill) ==
    <<Lower(skill.name), Lower(skill.description)>>
        \o [i \in 1..Len(skill.tags) |-> Lower(skill.tags[i])]

\* any(item in query_lower for item in items_to_check)
AnyItemIn(skill, query_lower) ==
    \E i \in 1..Len(items_to_check(skill)) :
        Occurs(items_to_check(skill)[i], query_lower)

RECURSIVE FindFrom(_, _, _, _)
\* the loop of find_skills from the i-th skill on, with the list matched
FindFrom(catalog, query_lower, i, found) ==
    IF i > Len(catalog) THEN [asked |-> TRUE, raised |-> FALSE, value |-> found]
    ELSE IF LowerRaises(catalog[i]) THEN [asked |-> TRUE, raised |-> TRUE, value |-> <<>>]
    ELSE FindFrom(catalog, query_lower, i + 1,
                  IF AnyItemIn(catalog[i], query_lower)
                  THEN Append(found, catalog[i]) ELSE found)

\* what find_skills(query) gives on the catalog: the list it returns, or
\* the exception it raises
find_skills(catalog, q) == FindFrom(catalog, Lower(q), 1, <<>>)

\* the catalog after self.skills[skill_info["name"]] = skill_info
Loaded(catalog, skill_info) ==
    IF \E i \in 1..Len(catalog) : catalog[i].name = skill_info.name
    THEN [i \in 1..Len(catalog) |->
             IF catalog[i].name = skill_info.name THEN skill_info ELSE catalog[i]]
    ELSE Append(catalog, skill_info)

\* SKILL.md files: a skill with a tag in upper case, one with a name in
\* upper case, one without a description, and a second file with the name
\* of the first
SkillFiles ==
    { [name |-> <<"a", "b">>, description |-> <<"c", " ", "d">>, tags |-> << <<"B", "b">> >>],
      [name |-> <<"C">>, description |-> <<"a", "a">>, tags |-> <<>>],
      [name |-> <<"d">>, description |-> NoDescription, tags |-> << <<"e">> >>],
      [name |-> <<"a", "b">>, description |-> <<"e">>, tags |-> <<>>] }

Queries ==
    { <<>>, <<"A", "B">>, <<"x", "b", "B", "c">>, <<"c", " ", "D">>,
      <<"a", "a", "b">>, <<"z">>, <<"E">> }

\* the request, the key manager and the clock, which the catalog leaves alone
uvars == <<nvars, evars, completion_id, messages, doc, parked, authorization,
           turn_input, kvars, session>>

\* load_skills reads one more SKILL.md
LoadSkill ==
    \E skill_info \in SkillFiles :
        /\ skills' = Loaded(skills, skill_info)
        /\ UNCHANGED <<query, matched, uvars>>

\* find_skills(query)
FindSkills ==
    \E q \in Queries :
        /\ query' = q
        /\ matched' = find_skills(skills, q)
        /\ UNCHANGED <<skills, uvars>>

InitSkills == InitWith([i \in Indices |-> ArrayText])

NextSkills == LoadSkill \/ FindSkills

SpecSkills == InitSkills /\ [][NextSkills]_vars

(***************************************************************************)
(* The endpoint and the keys.  chat_completions takes the Authorization    *)
(* header as a parameter (line 192) and never reads it; neither the        *)
(* handler nor the router (line 24) depends on verify_api_key.  A request  *)
(* arrives with any key, or none, at a process whose manager has issued    *)
(* two keys: the first was revoked, the second expires after day 1.        *)
(***************************************************************************)
\* the manager after two calls of create_key on day 0 and a revoke_key
TwoKeys ==
    revoke_key(
        create_key(create_key(EmptyManager, KeyId(1), RawKey(1), 0, {}, 0),
                   KeyId(2), RawKey(2), 1, {}, 0),
        KeyId(1))

InitGate ==
    /\ InitOne([i \in Indices |-> ArrayText], OneMessage, "u1")
    /\ enc_pc = "start"
    /\ parked = NoRequest
    /\ authorization \in RawKeys
    /\ manager = TwoKeys
    /\ now \in {1, 2}
    /\ nkeys = 2
    /\ dead = {KeyId(1)}
    /\ answer = NoAnswer
    /\ storage = save_keys(TwoKeys)
    /\ called = NotCalled
    /\ skills = <<>>
    /\ query = <<>>
    /\ matched = NotAsked
    /\ session = <<>>

SpecGate == InitGate /\ [][NextTurn]_vars

(***************************************************************************)
(* The session of a request (chat_completions, lines 209-239).  The        *)
(* session store and run_turn are not part of the sources at hand.  The    *)
(* store is taken to hand out one session for one session id, with         *)
(* clear() emptying it and add_*_message appending a message of that role; *)
(* run_turn is taken to read the session when it is first asked for an     *)
(* event, and to call the provider after that.  The requests of this       *)
(* section carry the same user name, hence the same session id.  The       *)
(* handler contains no await: it runs in one step.                         *)
(***************************************************************************)
\* any(msg.role == "system" for msg in request.messages)
has_system_msg(msgs) == \E k \in 1..Len(msgs) : msgs[k].role = "system"

RECURSIVE user_query(_)
\* the content of the latest user message that has one, "" otherwise
user_query(msgs) ==
    IF msgs = <<>> THEN <<>>
    ELSE LET msg == msgs[Len(msgs)] IN
         IF msg.role = "user" /\ msg.content # NoContent /\ msg.content # <<>>
         THEN msg.content
         ELSE user_query(SubSeq(msgs, 1, Len(msgs) - 1))

\* get_full_system_prompt(query): the base prompt with the names of the
\* skills find_skills matched, which are asked for only when there is a
\* query
get_full_system_prompt(catalog, q) ==
    LET found == IF q # <<>> THEN find_skills(catalog, q).value ELSE <<>>
    IN  <<"base.md">> \o [k \in 1..Len(found) |-> "skill"]

\* get_full_system_prompt raises: find_skills does
PromptRaises(catalog, q) == q # <<>> /\ find_skills(catalog, q).raised

RECURSIVE AddMessages(_, _)
\* "for msg in request.messages": the messages of the three roles are
\* added, in order
AddMessages(sess, msgs) ==
    IF msgs = <<>> THEN sess
    ELSE AddMessages(
             IF Head(msgs).role \in {"system", "user", "assistant"}
             THEN Append(sess, Head(msgs)) ELSE sess,
             Tail(msgs))

\* the handler when it does not clear the session
Prepared_NoClear(sess, catalog, msgs) ==
    AddMessages(
        IF ~has_system_msg(msgs)
        THEN Append(sess, ChatMessage("system",
                                      get_full_system_prompt(catalog, user_query(msgs))))
        ELSE sess,
        msgs)

\* the session after the handler: cleared, the assembled system prompt when
\* the request has no system message, then the messages of the request
Prepared(sess, catalog, msgs) ==
    AddMessages(
        IF ~has_system_msg(msgs)
        THEN <<ChatMessage("system", get_full_system_prompt(catalog, user_query(msgs)))>>
        ELSE <<>>,
        msgs)

\* chat_completions up to the StreamingResponse it returns; when the prompt
\* cannot be assembled the request ends without a stream
Handle ==
    /\ enc_pc = "handler"
    /\ IF PromptRaises(skills, user_query(messages))
       THEN /\ enc_pc' = "done"
            /\ session' = <<>>
       ELSE /\ enc_pc' = "start"
            /\ session' = Prepared(session, skills, messages)
    /\ UNCHANGED <<wire, total_usage, system_fingerprint, cursor, nvars,
                   completion_id, messages, doc, parked, authorization, turn_input,
                   kvars, svars>>

\* run_turn is asked for its first event: it reads the session
BeginTurn ==
    /\ enc_pc = "loop"
    /\ ~turn_input.read
    /\ turn_input' = [read |-> TRUE, messages |-> session]
    /\ UNCHANGED <<nvars, evars, completion_id, messages, doc, parked, authorization,
                   gvars>>

\* the provider is called by a turn that has begun
Begun == turn_input.read

\* what an earlier request of the user left in the session
Leftovers ==
    { <<>>,
      <<ChatMessage("system", <<"base.md">>), ChatMessage("user", <<"o", "l", "d">>),
        ChatMessage("assistant", <<"a">>)>> }

\* requests with and without a system message, with a message of another
\* role, with two user messages, and with a user message without content
SessionRequests ==
    { OneMessage,
      <<ChatMessage("system", <<"s">>), ChatMessage("user", <<"h", "i">>)>>,
      <<ChatMessage("user", <<"h", "i">>), ChatMessage("tool", <<"t">>),
        ChatMessage("assistant", <<"a">>), ChatMessage("user", NoContent)>>,
      <<ChatMessage("user", <<"a">>), ChatMessage("system", <<"s">>),
        ChatMessage("user", <<"b">>)>> }

\* no skill, a skill named in one of the requests, and a skill without a
\* description
SessionCatalogs ==
    { <<>>,
      <<[name |-> <<"h", "i">>, description |-> <<"x">>, tags |-> <<>>]>>,
      <<[name |-> <<"d">>, description |-> NoDescription, tags |-> <<>>]>> }

\* a request of the user arrives; an earlier one may have left messages
InitSession ==
    \E msgs \in SessionRequests : \E left \in Leftovers : \E catalog \in SessionCatalogs :
        /\ InitOne([i \in Indices |-> ArrayText], msgs, "u1")
        /\ enc_pc = "handler"
        /\ parked = NoRequest
        /\ authorization = NoKey
        /\ InitProcess(catalog, left)

SessionConnect == Begun /\ PipeConnect

SessionConnectFail == Begun /\ PipeConnectFail

NextSession ==
    \/ Handle \/ StartStream \/ BeginTurn \/ OnEvent \/ EndStream
    \/ SessionConnect \/ SessionConnectFail \/ PairPull \/ PipeStreamFail
    \/ PipeStreamEnd

SpecSession == InitSession /\ [][NextSession]_vars

\* the request of another client of the same user
OtherMessage == << ChatMessage("user", <<"o", "t", "h", "e", "r">>) >>

\* two requests of the same user arrive
InitShare ==
    /\ InitOne([i \in Indices |-> ArrayText], OneMessage, "u1")
    /\ enc_pc = "handler"
    /\ parked = [Fresh("u2") EXCEPT !.enc_pc = "handler", !.messages = OtherMessage]
    /\ authorization = NoKey
    /\ InitProcess(<<>>, <<>>)

NextShare == NextSession \/ Switch

SpecShare == InitShare /\ [][NextShare]_vars

(***************************************************************************)
(* Vocabulary of the properties                                            *)
(***************************************************************************)
\* the events yielded by the step
New == SubSeq(events', Len(events) + 1, Len(events'))

\* the step is a Pull
Pulled == nframes' = nframes + 1

\* the step is a Pull of a frame that carries a finish reason
PulledFinish == Pulled /\ Truthy(last'.finish_reason)

\* the concatenation of the fragments delivered so far for index i
Sent(i) == SubSeq(whole[i], 1, Len(whole[i]) - Len(pending[i]))

HasArrived(i) == \E k \in 1..Len(arrival) : arrival[k] = i

RECURSIVE Calls(_)
\* the completed tool calls carried by the events evs, in order
Calls(evs) ==
    IF evs = <<>> THEN <<>>
    ELSE (IF Head(evs).type = "tool_call" THEN Head(evs).tool_calls ELSE <<>>)
             \o Calls(Tail(evs))

\* an id a call of index i can bear: the upstream's, or the synthesized one
IdsOf(i) == {IdFor(i), call_(i)}

CallsFor(calls, i) == { k \in 1..Len(calls) : calls[k].id \in IdsOf(i) }

TypesOf(evs) == [k \in 1..Len(evs) |-> evs[k].type]

Count(evs, t) == Cardinality({ k \in 1..Len(evs) : evs[k].type = t })

\* the arguments of the call completed when the string a is delivered for
\* index i in a single frame that also carries the finish reason
SingleFrameArgs(i, a) ==
    LET chunk == Chunk(TRUE, None, <<Delta(i, None, None, a)>>, "tool_calls",
                       NoUsage, None)
    IN  ChunkEvents(ChunkBuffer(<<>>, chunk), chunk)[1].tool_calls[1].arguments

\* C1: chunking invariance.  When a frame with a finish reason is processed,
\* every index that has arrived is completed by exactly one tool call of that
\* frame, and its arguments are those of delivering the concatenation of the
\* index's fragments in a single frame, however the string was split.
C1_ChunkingInvariance ==
    [][PulledFinish =>
        \A i \in Indices :
            HasArrived(i)' =>
                LET calls == Calls(New)
                    mine == CallsFor(calls, i)
                IN  /\ Cardinality(mine) = 1
                    /\ \A k \in mine :
                           calls[k].arguments = SingleFrameArgs(i, Sent(i)')]_vars

\* the object of ObjectText, as json.dumps writes it
ObjectDumped == [type |-> "str", repr |-> <<"{", Q, Q, ":", " ", "1", "}">>]

\* C1 witness: the object text was delivered whole in three fragments and
\* the finish frame completed it
C1_Witness ==
    /\ nframes = 3
    /\ Truthy(last.finish_reason)
    /\ whole[0] = ObjectText
    /\ pending[0] = <<>>
    /\ arrival = <<0>>
    /\ tool_calls_buffer[1].id = call_(0)
    /\ Len(events) = 2
    /\ events[1].tool_calls[1].arguments = ObjectDumped


\* C2: no partial tool call is exposed.  A step yields a tool-call event only
\* when it processes a frame that carries a finish reason.
C2_NoPartialToolCall ==
    [][Count(New, "tool_call") > 0 => PulledFinish]_vars

\* C2 witness: three frames without a finish reason have delivered fragments
\* of both indices and no event was yielded
C2_Witness ==
    /\ nframes = 3
    /\ events = <<>>
    /\ Len(tool_calls_buffer) = 2
    /\ \A k \in 1..2 : tool_calls_buffer[k].arguments # <<>>

\* the accumulator of index i, a record of absent fields when there is none
EntryOf(buf, i) ==
    IF HasKey(buf, i) THEN buf[KeyPos(buf, i)]
    ELSE [index |-> i, id |-> None, name |-> None, arguments |-> NoArgs]

\* C3: a frame changes the accumulators of the indices it bears only.  The
\* accumulator of an index no delta of the frame bears is unchanged; the
\* arguments of every accumulator are the concatenation of the fragments of
\* its own index, its id and name are those of its own index; and a
\* completed call is made of its own accumulator.
C3_FrameEffect ==
    [][Pulled =>
        /\ \A i \in Indices \ last'.tool_calls :
               EntryOf(tool_calls_buffer', i) = EntryOf(tool_calls_buffer, i)
        /\ \A i \in Indices :
               HasKey(tool_calls_buffer', i) =>
                   LET e == EntryOf(tool_calls_buffer', i) IN
                   /\ e.arguments = Sent(i)'
                   /\ e.id \in IdsOf(i)
                   /\ e.name \in {"", NameFor(i)}
                   /\ PulledFinish =>
                          LET calls == Calls(New) IN
                          \A k \in CallsFor(calls, i) : calls[k] = ToolCallOf(e)]_vars

\* C3 witness: fragments of index 0, then of index 1, then of index 0 again
C3_Witness ==
    /\ nframes = 3
    /\ last.tool_calls = {0}
    /\ arrival = <<0, 1>>
    /\ Len(tool_calls_buffer) = 2
    /\ Len(tool_calls_buffer[1].arguments) >= 2
    /\ tool_calls_buffer[2].arguments # <<>>
    /\ tool_calls_buffer[1].name = NameFor(0)
    /\ tool_calls_buffer[2].name = ""

\* the indices of the set S in ascending order
Ascending(S) ==
    CHOOSE f \in [1..Cardinality(S) -> S] :
        \A k, m \in 1..Cardinality(S) : k < m => f[k] < f[m]

\* what a step that processes a finish frame yields: one done with the
\* frame's finish reason, preceded by one tool-call event whose calls are
\* those of the indices of order, in that order, when order is not empty
FinishYields(order) ==
    LET new == New
        calls == Calls(new)
    IN  /\ Count(new, "done") = 1
        /\ Count(new, "tool_call") = IF order = <<>> THEN 0 ELSE 1
        /\ \E k \in 1..Len(new) :
               /\ new[k].type = "done"
               /\ new[k].finish_reason = last'.finish_reason
               /\ order # <<>> => k > 1 /\ new[k - 1].type = "tool_call"
        /\ Len(calls) = Len(order)
        /\ \A k \in 1..Len(calls) : calls[k].id \in IdsOf(order[k])

ArrivedSet == { arrival[k] : k \in 1..Len(arrival) }

\* C4 as claimed: on a finish frame, one completed call per accumulated index
\* in ascending index order, then exactly one done with the frame's reason
C4_AscendingOrder ==
    [][PulledFinish => FinishYields(Ascending(ArrivedSet'))]_vars

\* C4: on a finish frame, one completed call per accumulated index in the
\* order in which the indices first arrived, then exactly one done with the
\* frame's finish reason; the done alone when nothing was accumulated.
C4_ArrivalOrder ==
    [][PulledFinish => FinishYields(arrival')]_vars

\* C4 witness: index 1 arrived before index 0 and the finish frame completed
\* them in that order
C4_Witness ==
    /\ Truthy(last.finish_reason)
    /\ arrival = <<1, 0>>
    /\ Len(events) = 2
    /\ events[1].type = "tool_call"
    /\ Len(events[1].tool_calls) = 2
    /\ events[1].tool_calls[1].id \in IdsOf(1)
    /\ events[1].tool_calls[2].id \in IdsOf(0)
    /\ events[2].type = "done"


\* the arguments a completed call carries for the value json.loads returns
\* for the text a
Carried(a) ==
    LET v == json_loads(a) IN
    IF v.type = "dict" THEN [type |-> "str", repr |-> json_dumps(v)]
    ELSE [type |-> v.type, repr |-> v.repr]

EmptyObject == [type |-> "str", repr |-> <<"{", "}">>]

\* C9: malformed arguments are recovered.  On a finish frame every index
\* that has arrived is completed; a call whose reassembled string is empty
\* or is not valid JSON carries the empty object, a call whose string is
\* valid JSON carries its own parsed value; the done follows and no error
\* is yielded.
C9_MalformedArguments ==
    [][PulledFinish =>
        LET new == New
            calls == Calls(new)
        IN  /\ Count(new, "error") = 0
            /\ Count(new, "done") = 1
            /\ new[Len(new)].type = "done"
            /\ \A i \in Indices :
                   HasArrived(i)' =>
                       /\ CallsFor(calls, i) # {}
                       /\ \A k \in CallsFor(calls, i) :
                              calls[k].arguments =
                                  IF json_loads(Sent(i)').ok
                                  THEN Carried(Sent(i)')
                                  ELSE EmptyObject]_vars

\* C9 witness: the finish frame came when the object of index 0 was
\* truncated and the array of index 1 was complete
C9_Witness ==
    /\ Truthy(last.finish_reason)
    /\ arrival = <<0, 1>>
    /\ whole[0] = ObjectText
    /\ Len(Sent(0)) = 5
    /\ Sent(1) = ArrayText
    /\ Len(events) = 2
    /\ events[1].tool_calls[1].arguments = EmptyObject
    /\ events[1].tool_calls[2].arguments = [type |-> "list", repr |-> ArrayText]
    /\ events[2].type = "done"

\* the value a denotes a JSON object: it is a dict, or a str whose text is
\* the JSON text of an object
DenotesObject(a) ==
    \/ a.type = "dict"
    \/ a.type = "str" /\ json_loads(a.repr).ok /\ json_loads(a.repr).type = "dict"

\* C10 as claimed: the arguments of every completed call denote a JSON object
C10_ArgumentsAreObject ==
    \A k \in 1..Len(events) :
        events[k].type = "tool_call" =>
            \A j \in 1..Len(events[k].tool_calls) :
                DenotesObject(events[k].tool_calls[j].arguments)

\* the position of the done among the events evs, 0 when there is none
DonePos(evs) ==
    IF Count(evs, "done") = 0 THEN 0
    ELSE CHOOSE k \in 1..Len(evs) : evs[k].type = "done"

\* C5 as claimed: the usage and metadata events of a finish frame are
\* yielded before the done of that frame
C5_SideChannelBeforeDone ==
    [][PulledFinish =>
        LET new == New IN
        \A k \in 1..Len(new) :
            new[k].type \in {"usage", "metadata"} => k < DonePos(new)]_vars

\* C7 as claimed: every frame that carries usage yields a usage event with
\* it, and every frame that carries a fingerprint yields a metadata event
\* with it, with or without a choice
C7_SideChannelAlwaysEmitted ==
    [][Pulled =>
        LET new == New IN
        /\ last'.usage # NoUsage =>
               \E k \in 1..Len(new) :
                   new[k].type = "usage" /\ new[k].usage = last'.usage
        /\ Truthy(last'.system_fingerprint) =>
               \E k \in 1..Len(new) :
                   /\ new[k].type = "metadata"
                   /\ new[k].content = last'.system_fingerprint]_vars

RECURSIVE TextsOf(_)
\* the contents of the text deltas among the events evs, in order
TextsOf(evs) ==
    IF evs = <<>> THEN <<>>
    ELSE (IF Head(evs).type = "text_delta" THEN <<Head(evs).content>> ELSE <<>>)
             \o TextsOf(Tail(evs))

\* C8: a failure of the upstream yields exactly one error, which is the last
\* event: the generator is closed, nothing follows the error, and the text
\* deltas of the frames received before it were all yielded, in order.
\* Without a failure no error is yielded.
C8_ErrorIsTerminal ==
    /\ Count(events, "error") = IF failed THEN 1 ELSE 0
    /\ failed => /\ pc = "closed"
                 /\ events[Len(events)].type = "error"
    /\ TextsOf(events) = contents

\* C8 witness: the upstream failed after two text frames: two text deltas,
\* the error, and no done
C8_Witness ==
    /\ failed
    /\ nframes = 2
    /\ TypesOf(events) = <<"text_delta", "text_delta", "error">>
    /\ events[1].content = "a"


FirstSuppliedId(first, i) == IF first[i] # None THEN first[i] ELSE call_(i)

\* C11: the id of a completed call is the first id the upstream supplied on
\* any fragment of its index, whichever fragment that was, and the
\* synthesized call_<index> only when no fragment of the index supplied one.
C11_FirstSuppliedId ==
    [][PulledFinish =>
        LET calls == Calls(New) IN
        /\ Len(calls) = Len(tool_calls_buffer')
        /\ \A k \in 1..Len(calls) :
               calls[k].id = FirstSuppliedId(supplied', tool_calls_buffer'[k].index)]_vars

IsPrefix(a, b) == Len(a) <= Len(b) /\ SubSeq(b, 1, Len(a)) = a

\* C12: the accumulator of an index, once it exists, stays; its id is the
\* same after every step, and its arguments before a step are a prefix of its
\* arguments after it.
C12_AccumulatorMonotone ==
    [][\A i \in Indices :
          HasKey(tool_calls_buffer, i) =>
              /\ HasKey(tool_calls_buffer', i)
              /\ EntryOf(tool_calls_buffer', i).id = EntryOf(tool_calls_buffer, i).id
              /\ IsPrefix(EntryOf(tool_calls_buffer, i).arguments,
                          EntryOf(tool_calls_buffer', i).arguments)]_vars

\* C12 witness: the accumulator of index 0 was created by a fragment without
\* an id, a later fragment bore the id id_a, two fragments of arguments were
\* appended, and the accumulator still has the id it was created with
C12_Witness ==
    /\ nframes = 3
    /\ HasKey(tool_calls_buffer, 0)
    /\ EntryOf(tool_calls_buffer, 0).id = call_(0)
    /\ supplied[0] = "id_a"
    /\ EntryOf(tool_calls_buffer, 0).arguments = <<"[", "1">>


\* C13: every accumulated call is emitted once over the whole stream.  The
\* events yielded so far carry at most one completed call for each index,
\* however many frames with a finish reason were processed.
C13_EmittedOnce ==
    \A i \in Indices : Cardinality(CallsFor(Calls(events), i)) <= 1


\* C14: the role chunk comes first.  Once the provider was started or an
\* event of the turn exists, a frame was sent; the first frame sent is a
\* chunk with role "assistant", no content and no finish reason; and no later
\* frame carries a role.  This holds also when the turn fails at once.
C14_RoleChunkFirst ==
    /\ (pc # "connect" \/ events # <<>> \/ cursor > 0) => wire # <<>>
    /\ wire # <<>> =>
           /\ wire[1].kind = "chunk"
           /\ wire[1].role = "assistant"
           /\ wire[1].content = None
           /\ wire[1].tool_calls = <<>>
           /\ wire[1].finish_reason = None
    /\ \A k \in 2..Len(wire) : wire[k].role = None

\* C14 witness: the upstream call failed before any frame, the turn yielded
\* the error alone, and the stream began with the role chunk and is over
C14_Witness ==
    /\ nframes = 0
    /\ failed
    /\ events = <<ErrorEvent>>
    /\ cursor = 1
    /\ enc_pc = "done"
    /\ wire[1] = initial_chunk
    /\ Len(wire) > 1


\* the chunks among the frames
ChunksOf(frames) == SelectSeq(frames, LAMBDA f : f.kind = "chunk")

\* C15: when the stream is over, its last chunk carries a finish reason and
\* a usage: the last usage observed during the turn, or an estimate when
\* none was observed.  Stated for the turns whose upstream did not fail.
C15_FinalChunkHasUsage ==
    (enc_pc = "done" /\ ~failed) =>
        LET chunks == ChunksOf(wire)
            final == chunks[Len(chunks)]
        IN  /\ final.finish_reason # None
            /\ final.usage # NoUsage
            /\ total_usage # NoUsage => final.usage = total_usage


\* the delta of the frame sets nothing
EmptyDelta(f) == f.role = None /\ f.content = None /\ f.tool_calls = <<>>

\* the stream is over and the except branch was not taken
CompletedWithoutError == enc_pc = "done" /\ wire[Len(wire)].kind # "error"

\* C16: the shape of a stream that completes without error.  Its frames are
\* the role chunk, then chunks with content or tool calls and no finish
\* reason, then one chunk with a finish reason and an empty delta, then the
\* sentinel.  At any time the sentinel occurs at most once and is the last
\* frame sent.
C16_StreamShape ==
    /\ \A k \in 1..Len(wire) : wire[k].kind = "sentinel" => k = Len(wire)
    /\ CompletedWithoutError =>
           LET n == Len(wire) IN
           /\ n >= 3
           /\ wire[1] = initial_chunk
           /\ \A k \in 2..(n - 2) :
                  /\ wire[k].kind = "chunk"
                  /\ wire[k].role = None
                  /\ wire[k].finish_reason = None
                  /\ ~EmptyDelta(wire[k])
           /\ wire[n - 1].kind = "chunk"
           /\ wire[n - 1].finish_reason # None
           /\ EmptyDelta(wire[n - 1])
           /\ wire[n] = Sentinel

\* C16 witness: a stream of the role chunk, the content chunks a and b, the
\* final chunk and the sentinel
C16_Witness ==
    /\ CompletedWithoutError
    /\ ~failed
    /\ Len(wire) = 5
    /\ wire[2].content = "a"
    /\ wire[3].content = "b"
    /\ wire[4].finish_reason = "stop"
    /\ wire[5] = Sentinel


\* C17: an error event short-circuits the encoding.  When the stream is over
\* and the turn yielded an error, the last frame is the error frame, and the
\* stream has no chunk with a finish reason and no sentinel.
C17_ErrorShortCircuits ==
    (enc_pc = "done" /\ failed) =>
        /\ wire[Len(wire)].kind = "error"
        /\ \A k \in 1..Len(wire) :
               wire[k].kind # "sentinel" /\ wire[k].finish_reason = None


RECURSIVE WireContents(_)
\* delta.content of the chunks that have one, in order
WireContents(frames) ==
    IF frames = <<>> THEN <<>>
    ELSE (IF Head(frames).kind = "chunk" /\ Head(frames).content # None
          THEN <<Head(frames).content>> ELSE <<>>)
             \o WireContents(Tail(frames))

RECURSIVE TurnTexts(_)
\* the texts of the text events among the events of the turn, in order
TurnTexts(tevs) ==
    IF tevs = <<>> THEN <<>>
    ELSE (IF Head(tevs).type = "assistant" /\ Head(tevs).text # None
          THEN <<Head(tevs).text>> ELSE <<>>)
             \o TurnTexts(Tail(tevs))

\* C18: content chunks correspond one to one, in order, to the text deltas.
\* At any time the contents of the chunks sent are the texts of the text
\* events the loop has consumed, one chunk for each and in their order; and
\* when the stream is over they are the texts of all the text deltas the
\* provider yielded, which are the contents of the frames it received.
C18_ContentCorrespondence ==
    /\ WireContents(wire) = TurnTexts(SubSeq(TurnEvents(events), 1, cursor))
    /\ enc_pc = "done" =>
           /\ WireContents(wire) = TextsOf(events)
           /\ WireContents(wire) = contents

\* C18 witness: the texts b, the empty text and a were received in this
\* order, and the finished stream carries three content chunks in that order
C18_Witness ==
    /\ enc_pc = "done"
    /\ contents = <<"b", "", "a">>
    /\ Len(wire) = 6
    /\ wire[2].content = "b"
    /\ wire[3].content = ""
    /\ wire[4].content = "a"


\* the step is a pass of the loop body for an event of type t
Consumed(t) ==
    /\ cursor' = cursor + 1
    /\ TurnEvents(events)[cursor + 1].type = t

\* C19: a tool request becomes one tool-call chunk.  The pass of the loop
\* for a tool request sends exactly one frame, a chunk whose delta carries one
\* descriptor of type "function" with an id, the tool name of the event
\* unmodified and the JSON encoding of its input as arguments, and the loop
\* goes on with the next event.
C19_ToolCallChunk ==
    [][Consumed("tool_use") =>
        LET event == TurnEvents(events)[cursor + 1]
            f == wire'[Len(wire')]
        IN  /\ Len(wire') = Len(wire) + 1
            /\ f.kind = "chunk"
            /\ Len(f.tool_calls) = 1
            /\ Truthy(f.tool_calls[1].id)
            /\ f.tool_calls[1].type = "function"
            /\ f.tool_calls[1].name = event.tool
            /\ f.tool_calls[1].arguments = json_dumps(event.payload)
            /\ enc_pc' = "loop"]_vars


\* the frame is a chunk with one tool-call descriptor
IsCallChunk(f) ==
    /\ f.kind = "chunk"
    /\ Len(f.tool_calls) = 1
    /\ "arguments" \in DOMAIN f.tool_calls[1]

\* the frame is a chunk with one tool-result descriptor
IsResultChunk(f) ==
    /\ f.kind = "chunk"
    /\ Len(f.tool_calls) = 1
    /\ "output" \in DOMAIN f.tool_calls[1]

\* C20: a result can be paired with its call by id.  When the stream is
\* over, for every tool call of the turn the stream has a tool-call chunk
\* and, after it, a tool-result chunk for that tool, and both carry the same
\* id.
C20_ResultPairsWithCall ==
    enc_pc = "done" =>
        LET tevs == TurnEvents(events) IN
        \A j \in 1..Len(tevs) :
            tevs[j].type = "tool_result" =>
                \E a \in 1..Len(wire) : \E b \in (a + 1)..Len(wire) :
                    /\ IsCallChunk(wire[a])
                    /\ IsResultChunk(wire[b])
                    /\ wire[a].tool_calls[1].name = tevs[j].tool
                    /\ wire[b].tool_calls[1].name = tevs[j].tool
                    /\ wire[b].tool_calls[1].id = wire[a].tool_calls[1].id


RECURSIVE Joined(_)
\* the concatenation of the texts
Joined(texts) ==
    IF texts = <<>> THEN <<>> ELSE Chars(Head(texts)) \o Joined(Tail(texts))

\* the non-streaming branch has answered
Answered == doc.document # NoDocument

\* C21: the non-streaming document is the accumulation of the stream.  When
\* the stream of a turn completed without error and the non-streaming branch
\* answered for the same events, the answer is a completion whose content is
\* the concatenation of the streamed contents and whose usage and
\* fingerprint are those of the final chunk of the stream.
C21_DocumentIsAccumulation ==
    (CompletedWithoutError /\ Answered) =>
        /\ doc.document.kind = "completion"
        /\ doc.document.choices[1].content = Joined(WireContents(wire))
        /\ doc.document.usage = wire[Len(wire) - 1].usage
        /\ doc.document.system_fingerprint = wire[Len(wire) - 1].system_fingerprint


\* C22: a non-streaming response always carries a usage.  The answer to a
\* turn is a completion whose usage is the last usage of the turn when there
\* was one, and otherwise the estimate from the lengths of the request's
\* contents and of the response text.
C22_DocumentUsage ==
    Answered =>
        /\ doc.document.kind = "completion"
        /\ doc.document.usage =
               IF doc.total_usage # NoUsage THEN doc.total_usage
               ELSE Estimate(messages, Joined(contents))


\* C23: a successful non-streaming completion has a positive total.  The
\* answer to a turn whose upstream did not fail is a completion with an id,
\* the object "chat.completion", one choice or more whose role is
\* "assistant", and a usage whose total_tokens is greater than 0.
C23_PositiveTotal ==
    (Answered /\ ~failed) =>
        /\ doc.document.kind = "completion"
        /\ Truthy(doc.document.id)
        /\ doc.document.object = "chat.completion"
        /\ Len(doc.document.choices) > 0
        /\ doc.document.choices[1].role = "assistant"
        /\ doc.document.usage[3] > 0


\* both requests are over
BothOver == enc_pc = "done" /\ parked.enc_pc = "done"

\* both requests received the same frames: at most one each, the same one,
\* and their upstreams failed alike
SameFrames ==
    /\ nframes <= 1
    /\ nframes = parked.nframes
    /\ last = parked.last
    /\ failed = parked.failed

\* C24: replay.  Two requests that are over and received the same frames
\* have yielded the same canonical events and the same wire frames, chunk
\* ids included.
C24_ReplayIdentical ==
    (BothOver /\ SameFrames) =>
        /\ events = parked.events
        /\ wire = parked.wire


\* what the request r yielded and captured comes from its own frames: the
\* texts of its events are the contents of its frames, its content chunks are
\* the texts of the events its loop has consumed, its chunks bear its own
\* completion id, its accumulators are those of the indices its frames bore,
\* and the usage and fingerprint it captured are from its own events
OwnOnly(r) ==
    /\ TextsOf(r.events) = r.contents
    /\ WireContents(r.wire) = TurnTexts(SubSeq(TurnEvents(r.events), 1, r.cursor))
    /\ \A k \in 1..Len(r.wire) :
           r.wire[k].kind = "chunk" => r.wire[k].id = chatcmpl_(r.completion_id)
    /\ Len(r.tool_calls_buffer) = Len(r.arrival)
    /\ \A k \in 1..Len(r.tool_calls_buffer) :
           r.tool_calls_buffer[k].index = r.arrival[k]
    /\ Calls(r.events) # <<>> => r.arrival # <<>>
    /\ r.total_usage # NoUsage => Count(r.events, "usage") > 0
    /\ Truthy(r.system_fingerprint) => Count(r.events, "metadata") > 0
    /\ r.events # <<>> => (r.nframes > 0 \/ r.failed)

\* C25: requests that run together do not mix.  Under every interleaving
\* of two requests, what each of them yielded and captured comes from its own
\* frames.
C25_NoCrossRequest == OwnOnly(Current) /\ OwnOnly(parked)

\* C25 witness: one request received a text and then a tool call, the other
\* the finish frame with usage and fingerprint; the first is over with its
\* text and the error frame, the second with the usage on its final chunk
\* and no content
C25_Witness ==
    /\ BothOver
    /\ contents = <<"a">>
    /\ arrival = <<0>>
    /\ wire[Len(wire)].kind = "error"
    /\ parked.contents = <<>>
    /\ parked.arrival = <<>>
    /\ parked.nframes = 1
    /\ parked.wire[2].usage = Usage1
    /\ Len(parked.wire) = 3


\* C26: the upstream is released on every exit path.  Once stream_response
\* has ended, by completion, by an error or because the client went away, the
\* stream of the upstream is no longer held, and with it no accumulator of
\* the request is left.
C26_ReleasedOnExit == Exited => ~UpstreamHeld

\* the key create_key issued as raw, NoKey when it issued none
IssuedAs(raw) ==
    IF \E n \in 1..nkeys : raw = RawKey(n)
    THEN KeyId(CHOOSE n \in 1..nkeys : raw = RawKey(n))
    ELSE NoKey

\* the key with this id is stored, enabled and not past its expiry
Usable(key_id) ==
    /\ key_id \in DOMAIN manager.keys
    /\ manager.keys[key_id].enabled
    /\ \/ manager.keys[key_id].expires_at = <<>>
       \/ now <= manager.keys[key_id].expires_at[1]

\* C27: after any sequence of create_key, revoke_key, delete_key and
\* cleanup_expired, validate_key(raw) returns a key exactly when raw starts
\* with "clb_", was issued by create_key, and the key issued as raw is
\* stored, enabled and not past its expiry, and then it returns that key;
\* otherwise it returns None and verify_api_key answers 401; it never
\* returns a key that was revoked or deleted
C27_ValidateExact ==
    /\ \A raw \in RawKeys :
           LET api_key == validate_key(manager, raw, now)
               accepted == /\ StartsWithClb(raw)
                           /\ IssuedAs(raw) # NoKey
                           /\ Usable(IssuedAs(raw))
           IN  /\ api_key # NoKey <=> accepted
               /\ api_key # NoKey => api_key = IssuedAs(raw)
               /\ api_key \notin dead
    /\ answer.status = 401 <=> (answer # NoAnswer /\ answer.key = NoKey)
    /\ answer.key # NoKey => answer.key = IssuedAs(answer.raw)

\* a key was accepted by verify_api_key and revoked or deleted afterwards
C27_Witness ==
    /\ answer.status = 200
    /\ answer.key \in dead
    /\ validate_key(manager, answer.raw, now) = NoKey

\* the step is a call of find_skills
Found == <<query, matched>>' # <<query, matched>>

\* the name, the description or a tag of the skill occurs in the query,
\* letter case aside
Relevant(skill, q) ==
    \/ Occurs(Lower(skill.name), Lower(q))
    \/ skill.description # NoDescription /\ Occurs(Lower(skill.description), Lower(q))
    \/ \E i \in 1..Len(skill.tags) : Occurs(Lower(skill.tags[i]), Lower(q))

RECURSIVE Select(_, _)
\* the relevant skills of the catalog, each once, in catalog order
Select(catalog, q) ==
    IF catalog = <<>> THEN <<>>
    ELSE (IF Relevant(Head(catalog), q) THEN <<Head(catalog)>> ELSE <<>>)
             \o Select(Tail(catalog), q)

\* C28: find_skills(query) returns exactly the loaded skills whose name,
\* description or one of whose tags occurs in the query, letter case
\* aside, each once and in catalog order (the empty list when none does),
\* and leaves the catalog as it was
C28_FindSkillsExact ==
    [][Found => /\ ~matched'.raised
                /\ matched'.value = Select(skills, query')
                /\ skills' = skills]_vars

\* the key the request presents is one validate_key accepts
Admitted == validate_key(manager, authorization, now) # NoKey

\* C29: a request that presents no key, or a key that is unknown, revoked
\* or expired, starts no turn and produces no chunk and no document
C29_GatedByValidator ==
    ~Admitted =>
        /\ enc_pc = "start"
        /\ pc = "connect"
        /\ wire = <<>>
        /\ doc.document = NoDocument

\* C30: a frame with a non-empty content yields exactly one text delta,
\* which carries that content and is yielded in the step that pulls the
\* frame, before the next frame is pulled; a frame whose content is absent
\* or empty yields no text delta; the text deltas yielded so far are the
\* non-empty contents of the frames pulled so far, in frame order
C30_TextDeltaPerContent ==
    [][Pulled =>
        /\ TextsOf(New) = IF last'.has_choice /\ Truthy(last'.content)
                          THEN <<last'.content>> ELSE <<>>
        /\ TextsOf(events') = TextsOf(events) \o TextsOf(New)]_vars

\* the name the call of index i is to bear: the last non-empty name a
\* fragment of the index bore, the empty string when none bore one
LastName(latest, i) == IF latest[i] # None THEN latest[i] ELSE ""

\* C31: the name of an accumulator, and of the call completed from it, is
\* the last non-empty name a fragment of its index bore: a fragment with an
\* absent or empty name leaves it as it was, and the names of successive
\* fragments are not concatenated
C31_LastNonEmptyName ==
    [][Pulled =>
        /\ \A k \in 1..Len(tool_calls_buffer') :
               tool_calls_buffer'[k].name =
                   LastName(named', tool_calls_buffer'[k].index)
        /\ PulledFinish =>
               LET calls == Calls(New) IN
               /\ Len(calls) = Len(tool_calls_buffer')
               /\ \A k \in 1..Len(calls) :
                      calls[k].name = LastName(named', tool_calls_buffer'[k].index)]_vars

\* C31 witness: index 0 was named fn_a, then fn_b, then a fragment with an
\* empty name closed the turn, and the completed call is named fn_b
C31_Witness ==
    /\ nframes = 3
    /\ named[0] = "fn_b"
    /\ last.tool_calls = {0}
    /\ Truthy(last.finish_reason)
    /\ \E k \in 1..Len(events) :
           /\ events[k].type = "tool_call"
           /\ events[k].tool_calls[1].name = "fn_b"
    /\ EntryOf(tool_calls_buffer, 0).arguments = <<"[">>

\* the events of the turn that stream_response has processed
Processed == SubSeq(TurnEvents(events), 1, cursor)

RECURSIVE LastFingerprint(_)
\* the fingerprint of the most recent metadata event among evs, None when
\* there is none
LastFingerprint(evs) ==
    IF evs = <<>> THEN None
    ELSE IF evs[Len(evs)].type = "metadata" THEN evs[Len(evs)].system_fingerprint
    ELSE LastFingerprint(SubSeq(evs, 1, Len(evs) - 1))

\* the frames the step sends
Sent_(w, w2) == SubSeq(w2, Len(w) + 1, Len(w2))

\* C32: every content, tool-call, tool-result and final chunk carries the
\* fingerprint of the most recent metadata event processed before it, and
\* none when no metadata event was processed; once a fingerprint was
\* observed, every later chunk carries one
C32_FingerprintCarried ==
    [][enc_pc = "loop" =>
        /\ \A k \in 1..Len(Sent_(wire, wire')) :
               Sent_(wire, wire')[k].kind = "chunk" =>
                   Sent_(wire, wire')[k].system_fingerprint = LastFingerprint(Processed)
        /\ Truthy(LastFingerprint(Processed)) => Truthy(LastFingerprint(Processed'))]_vars

\* C32 witness: a content chunk carries the first fingerprint observed and
\* the final chunk the second
C32_Witness ==
    /\ enc_pc = "done"
    /\ \E k \in 1..Len(wire) : wire[k].content = "a" /\ wire[k].system_fingerprint = "fp_1"
    /\ wire[Len(wire) - 1].finish_reason = "stop"
    /\ wire[Len(wire) - 1].system_fingerprint = "fp_2"
    /\ LastFingerprint(Processed) = "fp_2"

RECURSIVE LastUsage(_)
\* the usage of the most recent usage event among evs, NoUsage when there
\* is none
LastUsage(evs) ==
    IF evs = <<>> THEN NoUsage
    ELSE IF evs[Len(evs)].type = "usage" THEN evs[Len(evs)].usage
    ELSE LastUsage(SubSeq(evs, 1, Len(evs) - 1))

\* the turn had several usage events
SeveralUsages ==
    Cardinality({ k \in 1..Len(TurnEvents(events)) : TurnEvents(events)[k].type = "usage" }) >= 2

\* C33: when several usage events were observed, the usage of the final
\* chunk of the stream, and the usage of the non-streaming document, is the
\* last one observed, as it was reported
C33_LastUsageWins ==
    SeveralUsages =>
        /\ CompletedWithoutError =>
               wire[Len(wire) - 1].usage = LastUsage(TurnEvents(events))
        /\ (Answered /\ doc.cursor = Len(TurnEvents(events))) =>
               /\ doc.document.kind = "completion"
               /\ doc.document.usage = LastUsage(TurnEvents(events))

\* the turn of the request r, once it has begun, has read the session as
\* the handler of r left it
OwnInput(r) ==
    r.turn_input.read => r.turn_input.messages = Prepared(<<>>, skills, r.messages)

\* C34: two concurrent requests of the same user do not disturb each other:
\* the turn of each runs on the messages its own handler put in the session
C34_OwnSession == OwnInput(Current) /\ OwnInput(parked)

RECURSIVE OfThreeRoles(_)
\* the system, user and assistant messages among msgs, in their order
OfThreeRoles(msgs) ==
    IF msgs = <<>> THEN <<>>
    ELSE (IF Head(msgs).role \in {"system", "user", "assistant"}
          THEN <<Head(msgs)>> ELSE <<>>) \o OfThreeRoles(Tail(msgs))

\* the number of messages of the sequence that are the assembled prompt
Prompts(sess) ==
    Cardinality({ k \in 1..Len(sess) :
                    sess[k] = ChatMessage("system",
                                          get_full_system_prompt(skills, user_query(messages))) })

C36_TerminalEvent ==
    pc = "closed" =>
        \E k \in 1..Len(events) : events[k].type \in {"done", "error"}

\* C37: after any sequence of calls, and after a restart, the hash index
\* and the key table agree: the key_hash of every stored key maps to the id
\* of that key, and every entry of the index is the hash of a stored key and
\* maps to it.
C37_IndexAgrees ==
    /\ \A key_id \in DOMAIN manager.keys :
           /\ manager.keys[key_id].key_id = key_id
           /\ manager.keys[key_id].key_hash \in DOMAIN manager.hash_to_key
           /\ manager.hash_to_key[manager.keys[key_id].key_hash] = key_id
    /\ \A key_hash \in DOMAIN manager.hash_to_key :
           /\ manager.hash_to_key[key_hash] \in DOMAIN manager.keys
           /\ manager.keys[manager.hash_to_key[key_hash]].key_hash = key_hash

\* a key was just deleted and another key is still stored and indexed
C37_Witness ==
    /\ called.op = "delete_key"
    /\ called.ok
    /\ called.key_id \notin DOMAIN manager.keys
    /\ DOMAIN manager.keys # {}
    /\ DOMAIN manager.hash_to_key # {}

\* a step that is the call op of the manager
CallStep(op) ==
    /\ called'.op = op
    /\ <<manager, storage, called>>' # <<manager, storage, called>>

\* the keys other than key_id and their entries of the index are the same
\* after the step, and no key was added
OthersUnchanged(key_id) ==
    /\ DOMAIN manager'.keys \subseteq DOMAIN manager.keys
    /\ \A k \in DOMAIN manager.keys \ {key_id} :
           /\ k \in DOMAIN manager'.keys
           /\ manager'.keys[k] = manager.keys[k]
    /\ DOMAIN manager'.hash_to_key \subseteq DOMAIN manager.hash_to_key
    /\ \A key_hash \in DOMAIN manager.hash_to_key :
           manager.hash_to_key[key_hash] # key_id =>
               /\ key_hash \in DOMAIN manager'.hash_to_key
               /\ manager'.hash_to_key[key_hash] = manager.hash_to_key[key_hash]

\* C38: revoke_key(k) and delete_key(k) leave every other stored key and its
\* index entry unchanged; revoke_key of a stored key returns True and
\* changes only its enabled flag, the key stays stored and indexed;
\* delete_key of a stored key returns True and removes it; and for a key
\* that is not stored both return False and leave the key table, the index
\* and the file unchanged.
C38_OnlyThatKey ==
    [][(CallStep("revoke_key") \/ CallStep("delete_key")) =>
          LET key_id == called'.key_id
          IN  /\ OthersUnchanged(key_id)
              /\ called'.ok <=> Stored(manager, key_id)
              /\ (called'.op = "revoke_key" /\ Stored(manager, key_id)) =>
                     /\ Stored(manager', key_id)
                     /\ manager'.keys[key_id] =
                            [manager.keys[key_id] EXCEPT !.enabled = FALSE]
                     /\ manager'.hash_to_key = manager.hash_to_key
              /\ (called'.op = "delete_key" /\ Stored(manager, key_id)) =>
                     ~Stored(manager', key_id)
              /\ ~Stored(manager, key_id) =>
                     /\ manager' = manager
                     /\ storage' = storage]_vars

\* a stored key was just revoked, with True returned, while another stored
\* key is enabled and was used
C38_Witness ==
    /\ called.op = "revoke_key"
    /\ called.ok
    /\ Stored(manager, called.key_id)
    /\ ~manager.keys[called.key_id].enabled
    /\ \E k \in DOMAIN manager.keys :
           /\ k # called.key_id
           /\ manager.keys[k].enabled
           /\ manager.keys[k].last_used # <<>>

\* the expiry of the key is set and already past at the time t
PastExpiry(api_key, t) ==
    /\ api_key.expires_at # <<>>
    /\ api_key.expires_at[1] < t

\* C39: cleanup_expired removes exactly the stored keys whose expiry is set
\* and past and returns their number; every other key, disabled or without
\* expiry, and its index entry are unchanged; after the call no stored key
\* is past its expiry, and the same call made again at once removes nothing
\* and returns 0.
C39_CleanupExact ==
    [][CallStep("cleanup_expired") =>
          LET removed == DOMAIN manager.keys \ DOMAIN manager'.keys
          IN  /\ removed = { k \in DOMAIN manager.keys :
                               PastExpiry(manager.keys[k], now) }
              /\ called'.count = Cardinality(removed)
              /\ DOMAIN manager'.keys \subseteq DOMAIN manager.keys
              /\ \A k \in DOMAIN manager'.keys :
                     /\ manager'.keys[k] = manager.keys[k]
                     /\ ~PastExpiry(manager'.keys[k], now')
                     /\ manager'.hash_to_key[manager.keys[k].key_hash] = k
              /\ DOMAIN manager'.hash_to_key =
                     { manager.keys[k].key_hash : k \in DOMAIN manager'.keys }
              /\ cleanup_expired(manager', now') = manager'
              /\ Cardinality(Expired(manager', now')) = 0]_vars

\* cleanup_expired just removed a key and returned its number, and a
\* disabled key without expiry is still stored
C39_Witness ==
    /\ called.op = "cleanup_expired"
    /\ called.count = 1
    /\ Cardinality(dead \ DOMAIN manager.keys) >= 1
    /\ \E k \in DOMAIN manager.keys :
           /\ ~manager.keys[k].enabled
           /\ manager.keys[k].expires_at = <<>>

\* the two keys have the same id, hash, enabled flag, permissions and expiry
SameKey(a, b) ==
    /\ a.key_id = b.key_id
    /\ a.key_hash = b.key_hash
    /\ a.enabled = b.enabled
    /\ a.permissions = b.permissions
    /\ a.expires_at = b.expires_at

\* the manager m holds the keys of the manager n
SameKeys(m, n) ==
    /\ DOMAIN m.keys = DOMAIN n.keys
    /\ \A key_id \in DOMAIN n.keys : SameKey(m.keys[key_id], n.keys[key_id])

====
